---- MODULE Spec2Model ----
(***************************************************************************)
(* A model of the spectral path tracer: the low-discrepancy sequences, the *)
(* AABB slab test, the surfaces, the bounding volume hierarchy, the bounce *)
(* loop and the row-parallel render.  Every subsystem has its own          *)
(* variables and its own specification; the variables of the subsystems a  *)
(* specification does not exercise stay at Idle.                           *)
(*                                                                         *)
(* Numbers.  An f64 is modelled by an integer: finite values are exact     *)
(* integers (the inputs are chosen so that every quotient and square root  *)
(* the code takes is exact), INFINITY and -INFINITY are the two infinities *)
(* and NaN is a value of its own.  The float operators below follow        *)
(* IEEE-754 on the special values, and f64::min / f64::max follow Rust     *)
(* (a NaN operand is ignored).  The sign of a zero is not modelled.        *)
(***************************************************************************)
EXTENDS Integers, Sequences, FiniteSets, TLC

VARIABLES
    sequence,   \* SpecSeq: the VanDerCorput generator under test
    outputs,    \* SpecSeq: the values next() has returned so far
    pixel,      \* SpecPixel: the state of one render_pixel call
    slab,       \* SpecAabb: one Aabb::hit call and its result
    surf,       \* SpecSurface: one Hittable::hit call on one surface and its result
    bvh,        \* SpecBvh: the surfaces, the tree Bvh::new builds, and one query
    trace,      \* SpecTrace: one trace_ray call, bounce by bounce
    render,     \* SpecRender: Tracer::trace on the thread pool, then the image
    bitor,      \* SpecBitor: three boxes and their unions
    convert,    \* SpecConvert: one convert_pixels_to_image call
    scatter,    \* SpecScatter: one call of trace_refraction or trace_diffusion
    trace_state \* SpecState: a TraceState and the SingleLine run beside it

vars ==
    <<sequence, outputs, pixel, slab, surf, bvh, trace, render, bitor, convert, scatter,
      trace_state>>

\* What the actions of one subsystem leave alone.
NotSeq == <<pixel, slab, surf, bvh, trace, render, bitor, convert, scatter, trace_state>>
NotPixel == <<sequence, outputs, slab, surf, bvh, trace, render, bitor, convert, scatter, trace_state>>
NotAabb == <<sequence, outputs, pixel, surf, bvh, trace, render, bitor, convert, scatter, trace_state>>
NotSurface == <<sequence, outputs, pixel, slab, bvh, trace, render, bitor, convert, scatter, trace_state>>
NotBvh == <<sequence, outputs, pixel, slab, surf, trace, render, bitor, convert, scatter, trace_state>>
NotTrace == <<sequence, outputs, pixel, slab, surf, bvh, render, bitor, convert, scatter, trace_state>>
NotRender == <<sequence, outputs, pixel, slab, surf, bvh, trace, bitor, convert, scatter, trace_state>>
NotBitor == <<sequence, outputs, pixel, slab, surf, bvh, trace, render, convert, scatter, trace_state>>
NotConvert == <<sequence, outputs, pixel, slab, surf, bvh, trace, render, bitor, scatter, trace_state>>
NotScatter ==
    <<sequence, outputs, pixel, slab, surf, bvh, trace, render, bitor, convert, trace_state>>
NotState == <<sequence, outputs, pixel, slab, surf, bvh, trace, render, bitor, convert, scatter>>

Idle == "idle"

(***************************************************************************)
(* f64                                                                     *)
(***************************************************************************)
INFINITY == 1000000
NaN == INFINITY + INFINITY

IsNaN(x) == x = NaN
IsInf(x) == x = INFINITY \/ x = -INFINITY
IsFinite(x) == ~IsNaN(x) /\ ~IsInf(x)

Sign(x) == IF x < 0 THEN -1 ELSE IF x > 0 THEN 1 ELSE 0
Abs(x) == IF x < 0 THEN -x ELSE x

fneg(x) == IF IsNaN(x) THEN NaN ELSE -x

fadd(x, y) ==
    IF IsNaN(x) \/ IsNaN(y) THEN NaN
    ELSE IF IsInf(x) THEN (IF IsInf(y) /\ y # x THEN NaN ELSE x)
    ELSE IF IsInf(y) THEN y
    ELSE x + y

fsub(x, y) == fadd(x, fneg(y))

fmul(x, y) ==
    IF IsNaN(x) \/ IsNaN(y) THEN NaN
    ELSE IF IsInf(x) \/ IsInf(y)
         THEN (IF x = 0 \/ y = 0 THEN NaN ELSE Sign(x) * Sign(y) * INFINITY)
    ELSE x * y

\* x / y.  The numbers of the model are the integers, so a finite quotient is
\* defined only where y divides x: the CHOOSE has no value for a quotient such
\* as 1 / 2, and no specification of this module evaluates one.
fdiv(x, y) ==
    IF IsNaN(x) \/ IsNaN(y) THEN NaN
    ELSE IF IsInf(x) THEN (IF IsInf(y) THEN NaN
                           ELSE IF y < 0 THEN -x ELSE x)
    ELSE IF IsInf(y) THEN 0
    ELSE IF y = 0 THEN (IF x = 0 THEN NaN ELSE Sign(x) * INFINITY)
    ELSE Sign(x) * Sign(y) * (CHOOSE q \in 0..Abs(x) : q * Abs(y) = Abs(x))

\* f64::sqrt.  A finite root is exact: the inputs are chosen so that x is a square.
fsqrt(x) ==
    IF IsNaN(x) \/ x < 0 THEN NaN
    ELSE IF IsInf(x) THEN INFINITY
    ELSE CHOOSE k \in 0..x : k * k = x

\* The comparison operators of f64: false when an operand is NaN.
flt(x, y) == ~IsNaN(x) /\ ~IsNaN(y) /\ x < y
fle(x, y) == ~IsNaN(x) /\ ~IsNaN(y) /\ x <= y

\* f64::min and f64::max: if one operand is NaN the other is returned.
fmin(x, y) == IF IsNaN(x) THEN y ELSE IF IsNaN(y) THEN x ELSE IF x < y THEN x ELSE y
fmax(x, y) == IF IsNaN(x) THEN y ELSE IF IsNaN(y) THEN x ELSE IF x > y THEN x ELSE y

\* A Bare (an attenuation, a probability, a sample of a sequence, a weight) is
\* a fraction <<numerator, denominator>>.
RECURSIVE Reduce(_)
\* The fraction in lowest terms (the denominators are powers of two).
Reduce(q) == IF q[1] % 2 = 0 /\ q[2] % 2 = 0 THEN Reduce(<<q[1] \div 2, q[2] \div 2>>) ELSE q
FracMul(p, q) == Reduce(<<p[1] * q[1], p[2] * q[2]>>)
FracAdd(p, q) == Reduce(<<p[1] * q[2] + q[1] * p[2], p[2] * q[2]>>)
FracLt(p, q) == p[1] * q[2] < q[1] * p[2]
FracHalf(p) == Reduce(<<p[1], 2 * p[2]>>)
ZERO == <<0, 1>>
ONE == <<1, 1>>

\* Mutant: the end of the range is contained.
RangeContains_Closed(range, x) == fle(range[1], x) /\ fle(x, range[2])
\* Range<f64>::contains: start <= x < end.
RangeContains(range, x) == fle(range[1], x) /\ flt(x, range[2])

(***************************************************************************)
(* math/sequence.rs: the Van der Corput sequence                           *)
(***************************************************************************)
MaxCalls == 24
Bases == {2, 3, 5, 7, 10}

\* VanDerCorput::new(base): offset 0, n = 0, d = 1.  The offset is kept as the
\* fraction offset[1] / offset[2].
VanDerCorput_new(base) == [base |-> base, offset |-> <<0, 1>>, n |-> 0, d |-> 1]

RECURSIVE ShrinkY(_, _, _)
\* while x <= y { y /= base }
ShrinkY(x, y, base) == IF x <= y THEN ShrinkY(x, y \div base, base) ELSE y

\* Mutant: the reflected numerator taken as base * y - x.
VanDerCorput_step_WrongFactor(s) ==
    LET x == s.d - s.n
    IN  IF x = 1
        THEN [s EXCEPT !.n = 1, !.d = s.d * s.base]
        ELSE LET y == ShrinkY(x, s.d \div s.base, s.base)
             IN  [s EXCEPT !.n = s.base * y - x]

\* The generator after next(): the update of n and d.
VanDerCorput_step(s) ==
    LET x == s.d - s.n
    IN  IF x = 1
        THEN [s EXCEPT !.n = 1, !.d = s.d * s.base]
        ELSE LET y == ShrinkY(x, s.d \div s.base, s.base)
             IN  [s EXCEPT !.n = (s.base + 1) * y - x]

\* The value next() returns, (n / d + offset) % 1.0, as the fraction
\* <<numerator, denominator>> of the generator after the update.
VanDerCorput_value(s) ==
    LET den == s.d * s.offset[2]
        num == s.n * s.offset[2] + s.offset[1] * s.d
    IN  <<num % den, den>>

SeqInit ==
    /\ \E b \in Bases : sequence = VanDerCorput_new(b)
    /\ outputs = <<>>

\* sequence.next()
VanDerCorputNext ==
    /\ Len(outputs) < MaxCalls
    /\ sequence' = VanDerCorput_step(sequence)
    /\ outputs' = Append(outputs, VanDerCorput_value(sequence'))
    /\ UNCHANGED NotSeq

SeqIdle == sequence = Idle /\ outputs = Idle

(***************************************************************************)
(* tracer.rs: render_pixel, and color/xyz.rs: XyzColor::from_wavelength    *)
(***************************************************************************)
MaxSamples == 8
MAX_WAVELENGTH == 830
MIN_WAVELENGTH == 360
SPECTRUM_WIDTH_NoMin == MAX_WAVELENGTH
SPECTRUM_WIDTH == MAX_WAVELENGTH - MIN_WAVELENGTH
\* The CIE 1964 table holds one row per nanometre of [360 nm, 830 nm].
TableLen == 471
\* The values rng.f64() may return for the sub-pixel offset, as fractions.
OffsetSamples == {<<0, 1>>, <<1, 2>>}
\* The spectral flux densities trace_ray may return.
Densities == {0, 1}

\* The outcome of a call whose assertion fails.
Panic == "panic"

\* Halton2::new(base_1, base_2).offset(offset): new panics on equal bases.
Halton2_new(base_1, base_2, offset) ==
    IF base_1 = base_2 THEN Panic
    ELSE [corput_1 |-> [VanDerCorput_new(base_1) EXCEPT !.offset = offset[1]],
          corput_2 |-> [VanDerCorput_new(base_2) EXCEPT !.offset = offset[2]]]

Halton2_step(h) ==
    [corput_1 |-> VanDerCorput_step(h.corput_1),
     corput_2 |-> VanDerCorput_step(h.corput_2)]

Halton2_value(h) == <<VanDerCorput_value(h.corput_1), VanDerCorput_value(h.corput_2)>>

\* MIN_WAVELENGTH + SPECTRUM_WIDTH * u, in nanometres, as a fraction.
Wavelength(u) == <<MIN_WAVELENGTH * u[2] + SPECTRUM_WIDTH * u[1], u[2]>>

\* XyzColor::from_wavelength: `nanos as usize - 360`, the table index.  The cast
\* saturates at 0, and the subtraction of 360 then underflows: the index is
\* modelled as the (negative) integer, which the assertion rejects like the
\* wrapped value.
NanosAsUsize(w) == IF w[1] < 0 THEN 0 ELSE w[1] \div w[2]
TableIndex(w) == NanosAsUsize(w) - MIN_WAVELENGTH
\* assert!(nanos < 470)
MaxTableIndex == 470
FromWavelengthAssert(w) == TableIndex(w) >= 0 /\ TableIndex(w) < MaxTableIndex

\* XyzColor::from_wavelength once the assertion holds:
\* (1.0 - fract) * WAVELENGTH_TO_XYZ[nanos] + fract * WAVELENGTH_TO_XYZ[nanos + 1].
\* The table (color/cie_1964.rs) is not among the sources, so a colour is kept
\* as the weights of the rows of the table: a function from the index of a row
\* to a fraction.
XyzColor_from_wavelength(w) ==
    LET fract == <<w[1] % w[2], w[2]>>
        nanos == TableIndex(w)
    IN  [row \in {nanos, nanos + 1} |->
            IF row = nanos THEN Reduce(<<fract[2] - fract[1], fract[2]>>) ELSE Reduce(fract)]

\* XyzColor * f64
XyzColor_mul(color, rhs) == [row \in DOMAIN color |-> FracMul(color[row], <<rhs, 1>>)]

\* sum += color.0 of Sum<XyzColor>; Vec3::ZERO has no weight on any row.
XyzColor_add(sum, color) ==
    [row \in DOMAIN sum \cup DOMAIN color |->
        FracAdd(IF row \in DOMAIN sum THEN sum[row] ELSE ZERO,
                IF row \in DOMAIN color THEN color[row] ELSE ZERO)]

\* Mutant: the wavelength sequence is offset by a sample of the generator.
NewWavelengthSequence_Offset(rng_sample) ==
    [VanDerCorput_new(2) EXCEPT !.offset = rng_sample]
\* let mut wavelength_sequence = VanDerCorput::new(2): the generator of the
\* row has no part in it.
NewWavelengthSequence(rng_sample) == VanDerCorput_new(2)

PixelInit ==
    \E n \in 1..MaxSamples, ox \in OffsetSamples, oy \in OffsetSamples :
        pixel = [n_samples_per_pixel |-> n,
                 i |-> 0,
                 subpixel_sequence |-> Halton2_new(5, 3, <<ox, oy>>),
                 wavelength_sequence |-> NewWavelengthSequence(ox),
                 subpixel |-> Idle,
                 wavelength |-> Idle,
                 asserted |-> TRUE,
                 sum |-> <<>>]

\* One iteration of the sample loop of render_pixel: the samples of the two
\* sequences, the density trace_ray returns, and the colour added to the sum.
RenderSample ==
    /\ pixel.i < pixel.n_samples_per_pixel
    /\ pixel.asserted
    /\ \E density \in Densities :
        LET sub == Halton2_step(pixel.subpixel_sequence)
            wls == VanDerCorput_step(pixel.wavelength_sequence)
            w == Wavelength(VanDerCorput_value(wls))
        IN  pixel' = [pixel EXCEPT !.i = @ + 1,
                                   !.subpixel_sequence = sub,
                                   !.wavelength_sequence = wls,
                                   !.subpixel = Halton2_value(sub),
                                   !.wavelength = w,
                                   !.asserted = FromWavelengthAssert(w),
                                   !.sum = IF FromWavelengthAssert(w)
                                           THEN XyzColor_add(@, XyzColor_mul(
                                                    XyzColor_from_wavelength(w), density))
                                           ELSE @]
    /\ UNCHANGED NotPixel

PixelIdle == pixel = Idle

(***************************************************************************)
(* math/vec3.rs: a Vec3 is the tuple <<x, y, z>>                           *)
(***************************************************************************)
Vec3_new(x, y, z) == <<x, y, z>>
Vec3_splat(value) == <<value, value, value>>
Vec3_add(a, b) == <<fadd(a[1], b[1]), fadd(a[2], b[2]), fadd(a[3], b[3])>>
Vec3_sub(a, b) == <<fsub(a[1], b[1]), fsub(a[2], b[2]), fsub(a[3], b[3])>>
Vec3_neg(a) == <<fneg(a[1]), fneg(a[2]), fneg(a[3])>>
Vec3_mul(a, k) == <<fmul(a[1], k), fmul(a[2], k), fmul(a[3], k)>>
Vec3_div(a, b) == <<fdiv(a[1], b[1]), fdiv(a[2], b[2]), fdiv(a[3], b[3])>>
Vec3_div_scalar(a, k) == <<fdiv(a[1], k), fdiv(a[2], k), fdiv(a[3], k)>>
Vec3_dot(a, b) == fadd(fadd(fmul(a[1], b[1]), fmul(a[2], b[2])), fmul(a[3], b[3]))
Vec3_length_squared(a) == Vec3_dot(a, a)
Vec3_cross(a, b) ==
    <<fsub(fmul(a[2], b[3]), fmul(b[2], a[3])),
      fsub(fmul(a[3], b[1]), fmul(b[3], a[1])),
      fsub(fmul(a[1], b[2]), fmul(b[1], a[2]))>>
Vec3_min(a, b) == <<fmin(a[1], b[1]), fmin(a[2], b[2]), fmin(a[3], b[3])>>
Vec3_max(a, b) == <<fmax(a[1], b[1]), fmax(a[2], b[2]), fmax(a[3], b[3])>>
Vec3_min_element(a) == fmin(a[1], fmin(a[2], a[3]))
Vec3_max_element(a) == fmax(a[1], fmax(a[2], a[3]))
Vec3_length(a) == fsqrt(Vec3_length_squared(a))
Vec3_normalize(a) == Vec3_div_scalar(a, Vec3_length(a))
Vec3_is_finite(a) == IsFinite(a[1]) /\ IsFinite(a[2]) /\ IsFinite(a[3])
Vec3_is_infinite(a) == IsInf(a[1]) \/ IsInf(a[2]) \/ IsInf(a[3])

\* Ray::at
Ray_at(ray, distance) == Vec3_add(ray.origin, Vec3_mul(ray.direction, distance))

(***************************************************************************)
(* math/aabb.rs                                                            *)
(***************************************************************************)
None == <<>>

Aabb_size(aabb) == Vec3_sub(aabb.max_point, aabb.min_point)
Aabb_center(aabb) == Vec3_add(aabb.min_point, Vec3_div_scalar(Aabb_size(aabb), 2))

\* The slab test of Aabb::hit, after the shortcut for the unbounded box.
Aabb_hit_slabs(aabb, by_ray, distance_range) ==
    LET min_plane_distances == Vec3_div(Vec3_sub(aabb.min_point, by_ray.origin), by_ray.direction)
        max_plane_distances == Vec3_div(Vec3_sub(aabb.max_point, by_ray.origin), by_ray.direction)
        distance_max == fmin(Vec3_min_element(Vec3_max(min_plane_distances, max_plane_distances)),
                             distance_range[2])
        distance_min == fmax(Vec3_max_element(Vec3_min(min_plane_distances, max_plane_distances)),
                             distance_range[1])
    IN  IF flt(distance_max, 0) THEN None
        ELSE IF fle(distance_min, distance_max) THEN <<distance_min, distance_max>>
        ELSE None

\* Mutant: the slab test without the shortcut for the unbounded box.
Aabb_hit_NoShortcut(aabb, by_ray, distance_range) ==
    Aabb_hit_slabs(aabb, by_ray, distance_range)

\* Aabb::hit: None, or Some((distance_min, distance_max)) as the pair.
Aabb_hit(aabb, by_ray, distance_range) ==
    IF Vec3_is_infinite(aabb.min_point) /\ Vec3_is_infinite(aabb.max_point)
    THEN <<distance_range[1], distance_range[2]>>
    ELSE Aabb_hit_slabs(aabb, by_ray, distance_range)

AabbExtent == 2
Grid == -AabbExtent..AabbExtent
Axes == 1..3
Box(min_point, max_point) == [min_point |-> min_point, max_point |-> max_point]
FiniteBoxes ==
    {Box(<<-1, -1, -1>>, <<1, 1, 1>>),
     Box(<<1, 1, 1>>, <<2, 2, 2>>),
     Box(<<0, -1, -1>>, <<0, 1, 1>>),
     Box(<<-2, 0, -1>>, <<0, 1, 2>>)}
Unbounded == Box(Vec3_splat(-INFINITY), Vec3_splat(INFINITY))
\* A layer: unbounded sideways, bounded in z.
Layer == Box(<<-INFINITY, -INFINITY, 0>>, <<INFINITY, INFINITY, 1>>)
Boxes == FiniteBoxes \cup {Unbounded, Layer}
Directions == {d \in {-1, 0, 1} \X {-1, 0, 1} \X {-1, 0, 1} : d # <<0, 0, 0>>}
Origins == Grid \X Grid \X {-AabbExtent, 0}
Ranges == {<<0, INFINITY>>, <<1, 3>>, <<-3, -1>>, <<3, INFINITY>>}

AabbInit ==
    \E aabb \in Boxes, origin \in Origins, direction \in Directions, range \in Ranges :
        slab = [aabb |-> aabb,
                ray |-> [origin |-> origin, direction |-> direction],
                range |-> range,
                done |-> FALSE,
                result |-> None]

\* aabb.hit(&ray, &range)
AabbHit ==
    /\ ~slab.done
    /\ slab' = [slab EXCEPT !.done = TRUE,
                            !.result = Aabb_hit(slab.aabb, slab.ray, slab.range)]
    /\ UNCHANGED NotAabb

AabbIdle == slab = Idle

\* Mutant: the union keeps the max point of the left operand.
Aabb_bitor_LeftMax(lhs, rhs) ==
    [min_point |-> Vec3_min(lhs.min_point, rhs.min_point),
     max_point |-> lhs.max_point]
\* impl BitOr for Aabb
Aabb_bitor(lhs, rhs) ==
    [min_point |-> Vec3_min(lhs.min_point, rhs.min_point),
     max_point |-> Vec3_max(lhs.max_point, rhs.max_point)]


(***************************************************************************)
(* surface/sphere.rs, surface/triangle.rs, surface/fog.rs                  *)
(*                                                                         *)
(* A Hit is the record [distance, location, normal, type_, material]; the  *)
(* surfaces of this section stand for their own materials.                 *)
(***************************************************************************)
Hit(distance, location, normal, type_, material) ==
    [distance |-> distance, location |-> location, normal |-> normal,
     type_ |-> type_, material |-> material]

Sphere(center, radius) == [kind |-> "Sphere", center |-> center, radius |-> radius]
Triangle(v0, v1, v2) == [kind |-> "Triangle", vertices |-> <<v0, v1, v2>>]
UniformFog(aabb) == [kind |-> "UniformFog", aabb |-> aabb]

\* impl Bounded for Sphere
Sphere_aabb(sphere) ==
    Box(Vec3_sub(sphere.center, Vec3_splat(sphere.radius)),
        Vec3_add(sphere.center, Vec3_splat(sphere.radius)))

\* The Hit of Sphere::hit once the distance is chosen.
Sphere_hit_at(sphere, by_ray, distance) ==
    LET location == Ray_at(by_ray, distance)
        outward_normal == Vec3_div_scalar(Vec3_sub(location, sphere.center), sphere.radius)
    IN  IF flt(Vec3_dot(outward_normal, by_ray.direction), 0)
        THEN Hit(distance, location, outward_normal, "Enter", sphere)
        ELSE Hit(distance, location, Vec3_neg(outward_normal), "Leave", sphere)

\* Sphere::hit
Sphere_hit(sphere, by_ray, distance_range) ==
    LET oc == Vec3_sub(by_ray.origin, sphere.center)
        a == Vec3_length_squared(by_ray.direction)
        c == fsub(Vec3_length_squared(oc), fmul(sphere.radius, sphere.radius))
        half_b == Vec3_dot(oc, by_ray.direction)
        discriminant == fsub(fmul(half_b, half_b), fmul(a, c))
    IN  IF flt(discriminant, 0) THEN None
        ELSE LET discriminant_sqrt == fsqrt(discriminant)
                 near == fdiv(fsub(fneg(half_b), discriminant_sqrt), a)
                 far == fdiv(fadd(fneg(half_b), discriminant_sqrt), a)
             IN  IF RangeContains(distance_range, near)
                 THEN Sphere_hit_at(sphere, by_ray, near)
                 ELSE IF RangeContains(distance_range, far)
                 THEN Sphere_hit_at(sphere, by_ray, far)
                 ELSE None

\* impl Bounded for Triangle
Triangle_aabb(triangle) ==
    LET v == triangle.vertices
    IN  Box(Vec3_min(v[1], Vec3_min(v[2], v[3])), Vec3_max(v[1], Vec3_max(v[2], v[3])))

\* Triangle::hit.  f = 1.0 / a is exact for the triangles used (|a| is a power
\* of two), so f * x is the quotient x / a: u and v are kept as the numerators
\* of u = u_a / |a| and v = v_a / |a|.  With a = 0, f is infinite and u is NaN
\* or infinite: (0.0..=1.0).contains(&u) is false.
Triangle_hit(triangle, by_ray, distance_range) ==
    LET edge_1 == Vec3_sub(triangle.vertices[2], triangle.vertices[1])
        edge_2 == Vec3_sub(triangle.vertices[3], triangle.vertices[1])
        h == Vec3_cross(by_ray.direction, edge_2)
        a == Vec3_dot(edge_1, h)
        s == Vec3_sub(by_ray.origin, triangle.vertices[1])
        u_a == Sign(a) * Vec3_dot(s, h)
        q == Vec3_cross(s, edge_1)
        v_a == Sign(a) * Vec3_dot(by_ray.direction, q)
        distance == fdiv(Vec3_dot(edge_2, q), a)
        normal == Vec3_normalize(Vec3_cross(edge_1, edge_2))
    IN  IF a = 0 THEN None
        ELSE IF ~(0 <= u_a /\ u_a <= Abs(a)) THEN None
        ELSE IF v_a < 0 \/ u_a + v_a > Abs(a) THEN None
        ELSE IF RangeContains(distance_range, distance)
        THEN Hit(distance, Ray_at(by_ray, distance),
                 IF Vec3_dot(normal, by_ray.direction) > 0 THEN Vec3_neg(normal) ELSE normal,
                 "Refract", triangle)
        ELSE None

\* impl Bounded for UniformFog
UniformFog_aabb(fog) == fog.aabb

\* UniformFog::hit.  free_path is -1.0 / density * ln(rng.next()), the length
\* the ray runs in the fog before it scatters: the sample is in [0, 1), so its
\* logarithm is in [-INFINITY, 0) and the free path in [0, INFINITY] once
\* rounded.  The assertion that min_distance is finite is the flag of FogAssert.
UniformFog_hit(fog, by_ray, distance_range, free_path) ==
    LET aabb_hit == Aabb_hit(fog.aabb, by_ray, distance_range)
    IN  IF aabb_hit = None THEN None
        ELSE LET hit_distance == fadd(aabb_hit[1], free_path)
             IN  IF flt(hit_distance, aabb_hit[2])
                 THEN Hit(hit_distance, Ray_at(by_ray, hit_distance),
                          Vec3_neg(Vec3_normalize(by_ray.direction)), "Enter", fog)
                 ELSE None

\* assert!(min_distance.is_finite())
FogAssert(fog, by_ray, distance_range) ==
    LET aabb_hit == Aabb_hit(fog.aabb, by_ray, distance_range)
    IN  aabb_hit = None \/ IsFinite(aabb_hit[1])

\* Bounded::aabb and Hittable::hit of a surface of any kind.
Surface_aabb(surface) ==
    IF surface.kind = "Sphere" THEN Sphere_aabb(surface)
    ELSE IF surface.kind = "Triangle" THEN Triangle_aabb(surface)
    ELSE UniformFog_aabb(surface)

Surface_hit(surface, by_ray, distance_range, free_path) ==
    IF surface.kind = "Sphere" THEN Sphere_hit(surface, by_ray, distance_range)
    ELSE IF surface.kind = "Triangle" THEN Triangle_hit(surface, by_ray, distance_range)
    ELSE UniformFog_hit(surface, by_ray, distance_range, free_path)

\* The sign of a zero.  The numbers above have one zero; f64 has two, which
\* compare equal but which total_cmp orders, -0.0 first.  A signed number is
\* <<x, negative>>, negative only for the zero -0.0, and the operators below
\* follow the rules of IEEE 754: x - x is +0.0, a sum of zeros is -0.0 only if
\* both are, and a zero product or quotient has the sign of its operands.
Signed(x, negative) == <<x, x = 0 /\ negative>>
IsSignNegative(p) == p[1] < 0 \/ (p[1] = 0 /\ p[2])
sneg(p) == Signed(fneg(p[1]), ~p[2])
sadd(p, q) == Signed(fadd(p[1], q[1]), p[1] = 0 /\ q[1] = 0 /\ p[2] /\ q[2])
ssub(p, q) == sadd(p, sneg(q))
smul(p, q) == Signed(fmul(p[1], q[1]), IsSignNegative(p) # IsSignNegative(q))
sdiv(p, q) ==
    Signed(IF q[1] = 0 /\ q[2] THEN fneg(fdiv(p[1], 0)) ELSE fdiv(p[1], q[1]),
           IsSignNegative(p) # IsSignNegative(q))
ssqrt(p) == Signed(fsqrt(p[1]), p[2])

\* A vector of the scene or of the ray: its zeros are +0.0.
SVec3(a) == <<Signed(a[1], FALSE), Signed(a[2], FALSE), Signed(a[3], FALSE)>>
SVec3_sub(a, b) == <<ssub(a[1], b[1]), ssub(a[2], b[2]), ssub(a[3], b[3])>>
SVec3_dot(a, b) == sadd(sadd(smul(a[1], b[1]), smul(a[2], b[2])), smul(a[3], b[3]))
SVec3_cross(a, b) ==
    <<ssub(smul(a[2], b[3]), smul(b[2], a[3])),
      ssub(smul(a[3], b[1]), smul(b[3], a[1])),
      ssub(smul(a[1], b[2]), smul(b[1], a[2]))>>

\* The distance of Sphere::hit with its sign, for a ray that hits.
Sphere_distance(sphere, by_ray, distance_range) ==
    LET oc == SVec3_sub(SVec3(by_ray.origin), SVec3(sphere.center))
        a == SVec3_dot(SVec3(by_ray.direction), SVec3(by_ray.direction))
        radius == Signed(sphere.radius, FALSE)
        c == ssub(SVec3_dot(oc, oc), smul(radius, radius))
        half_b == SVec3_dot(oc, SVec3(by_ray.direction))
        discriminant_sqrt == ssqrt(ssub(smul(half_b, half_b), smul(a, c)))
        near == sdiv(ssub(sneg(half_b), discriminant_sqrt), a)
        far == sdiv(sadd(sneg(half_b), discriminant_sqrt), a)
    IN  IF RangeContains(distance_range, near[1]) THEN near ELSE far

\* The distance of Triangle::hit with its sign, f * edge_2.dot(q) with
\* f = 1.0 / a, for a ray that hits.
Triangle_distance(triangle, by_ray) ==
    LET v0 == SVec3(triangle.vertices[1])
        edge_1 == SVec3_sub(SVec3(triangle.vertices[2]), v0)
        edge_2 == SVec3_sub(SVec3(triangle.vertices[3]), v0)
        h == SVec3_cross(SVec3(by_ray.direction), edge_2)
        a == SVec3_dot(edge_1, h)
        q == SVec3_cross(SVec3_sub(SVec3(by_ray.origin), v0), edge_1)
        product == SVec3_dot(edge_2, q)
    IN  Signed(fdiv(product[1], a[1]), IsSignNegative(a) # IsSignNegative(product))

\* Whether the distance of the hit of the surface is -0.0.  The distance of a
\* fog is a sum with the free path, which is positive or +0.0.
Hit_distance_is_negative_zero(surface, by_ray, distance_range) ==
    IF surface.kind = "Sphere" THEN Sphere_distance(surface, by_ray, distance_range)[2]
    ELSE IF surface.kind = "Triangle" THEN Triangle_distance(surface, by_ray)[2]
    ELSE FALSE

\* hit_1.distance.total_cmp(&hit_2.distance) == Ordering::Less, for the hits of
\* a ray: the numbers in their order, and -0.0 before +0.0.
total_cmp_less(hit_1, hit_2, by_ray, distance_range) ==
    \/ hit_1.distance < hit_2.distance
    \/ /\ hit_1.distance = 0
       /\ hit_2.distance = 0
       /\ Hit_distance_is_negative_zero(hit_1.material, by_ray, distance_range)
       /\ ~Hit_distance_is_negative_zero(hit_2.material, by_ray, distance_range)

\* The surfaces, rays and ranges tried.  Centres are even and radii 1, triangle
\* corners are odd, and the rays run along the axes (unit directions): every
\* discriminant is a square and every centre of a box is an integer.
SurfExtent == 2
SurfGrid == -SurfExtent..SurfExtent
UnitSphere == Sphere(<<0, 0, 0>>, 1)
PointSphere == Sphere(<<0, 0, 0>>, 0)
Spheres == {UnitSphere, Sphere(<<2, 0, 0>>, 1), PointSphere}
FlatTriangle == Triangle(<<-1, -1, 1>>, <<1, -1, 1>>, <<-1, 1, 1>>)
Triangles ==
    {FlatTriangle,
     Triangle(<<-1, -1, 1>>, <<-1, 1, 1>>, <<1, -1, 1>>),
     Triangle(<<1, -1, -1>>, <<1, 1, -1>>, <<1, -1, 1>>),
     Triangle(<<-1, 0, 0>>, <<0, 0, 0>>, <<1, 0, 0>>)}
Fogs == {UniformFog(Unbounded), UniformFog(Box(<<-1, -1, -1>>, <<1, 1, 1>>))}
FreePaths == {0, 1, INFINITY}
AxisDirections ==
    {<<1, 0, 0>>, <<-1, 0, 0>>, <<0, 1, 0>>, <<0, -1, 0>>, <<0, 0, 1>>, <<0, 0, -1>>}
SurfOrigins == SurfGrid \X SurfGrid \X SurfGrid
SurfRanges == {<<0, INFINITY>>, <<1, 3>>, <<2, INFINITY>>}

SurfaceInit ==
    \E surface \in Spheres \cup Triangles \cup Fogs, origin \in SurfOrigins,
       direction \in AxisDirections, range \in SurfRanges :
        surf = [surface |-> surface,
                ray |-> [origin |-> origin, direction |-> direction],
                range |-> range,
                done |-> FALSE,
                asserted |-> TRUE,
                result |-> None]

\* surface.hit(&ray, &range, rng)
SurfaceHit ==
    /\ ~surf.done
    /\ \E free_path \in (IF surf.surface.kind = "UniformFog" THEN FreePaths ELSE {0}) :
        surf' = [surf EXCEPT
                    !.done = TRUE,
                    !.asserted = (surf.surface.kind = "UniformFog"
                                    => FogAssert(surf.surface, surf.ray, surf.range)),
                    !.result = IF surf.surface.kind = "UniformFog"
                                  /\ ~FogAssert(surf.surface, surf.ray, surf.range)
                               THEN None
                               ELSE Surface_hit(surf.surface, surf.ray, surf.range, free_path)]
    /\ UNCHANGED NotSurface

SurfaceIdle == surf = Idle

(***************************************************************************)
(* tracer/bvh.rs                                                           *)
(*                                                                         *)
(* The tree is the sequence bvh.nodes; node 1 is the root.  A node is      *)
(* [kind, start, end, aabb, left, right]: it covers the surfaces           *)
(* start..end-1 of bvh.surfaces (the slice the call of Bvh::new was given),*)
(* kind "Todo" is a call of Bvh::new that has not run yet, and left and    *)
(* right are the indices of the children of a "Node".  bvh.stack holds the *)
(* calls of Bvh::new still to run, the next one first.                     *)
(***************************************************************************)
MaxSurfaces == 3
MaxLeafSize == 2
LeafCaps == 1..MaxLeafSize

\* The deterministic surfaces the scenes are made of, in the order of the scene.
BvhCatalogue ==
    <<UnitSphere,
      Sphere(<<-4, 0, 0>>, 1),
      Sphere(<<0, 2, 0>>, 1),
      Sphere(<<0, 0, 4>>, 1),
      FlatTriangle>>

RECURSIVE PickSurfaces(_, _)
\* The surfaces of the catalogue whose index is in the set, in catalogue order.
PickSurfaces(indices, from) ==
    IF from > Len(BvhCatalogue) THEN <<>>
    ELSE IF from \in indices
         THEN <<BvhCatalogue[from]>> \o PickSurfaces(indices, from + 1)
         ELSE PickSurfaces(indices, from + 1)

Scenes ==
    {PickSurfaces(indices, 1) :
        indices \in {c \in SUBSET (1..Len(BvhCatalogue)) : Cardinality(c) <= MaxSurfaces}}

Todo(start, end) ==
    [kind |-> "Todo", start |-> start, end |-> end, aabb |-> None, axis |-> 0,
     left |-> 0, right |-> 0]

RECURSIVE UnionAabb(_, _)
\* surfaces[1..].iter().map(aabb).fold(surfaces[0].aabb(), |acc, aabb| acc | aabb)
UnionAabb(surfaces, accumulator) ==
    IF surfaces = <<>> THEN accumulator
    ELSE UnionAabb(Tail(surfaces), Aabb_bitor(accumulator, Surface_aabb(Head(surfaces))))

\* The axis of the key: x or y if it is strictly the longest, else z.
KeyAxis(size) ==
    IF flt(size[2], size[1]) /\ flt(size[3], size[1]) THEN 1
    ELSE IF flt(size[1], size[2]) /\ flt(size[3], size[2]) THEN 2
    ELSE 3

SurfaceKey(surface, axis) == Aabb_center(Surface_aabb(surface))[axis]

\* f64::total_cmp as <=: the numbers in their order, and a NaN below or above
\* them all according to its sign bit (the sign of the NaN of inf - inf is
\* that of the platform).
TotalLe(a, b, nan_sign) ==
    LET rank(x) == IF IsNaN(x) THEN nan_sign * NaN ELSE x
    IN  rank(a) <= rank(b)

\* The results sort_unstable_by may leave: every permutation of the slice that
\* is sorted by the key (the order of equal keys is not specified).
SortedSlices(slice, axis) ==
    LET n == Len(slice)
        perms == {perm \in [1..n -> 1..n] : \A i, j \in 1..n : perm[i] = perm[j] => i = j}
        sorted(q, nan_sign) ==
            \A i \in 1..(n - 1) :
                TotalLe(SurfaceKey(q[i], axis), SurfaceKey(q[i + 1], axis), nan_sign)
    IN  {q \in {[i \in 1..n |-> slice[perm[i]]] : perm \in perms} :
            \E nan_sign \in {-1, 1} : sorted(q, nan_sign)}

\* partition_point(|surface| key(surface.aabb().center()) < key(center)) on the
\* sorted slice: the binary search of the standard library (base and size are
\* those of its loop, the indices count from 0).  Where the keys below that of
\* the centre come first it is their number; a NaN that total_cmp sorted
\* before them is not below the centre, the slice is not partitioned, and the
\* result is where the search ends.
PartitionPoint(slice, axis, center) ==
    LET pred(i) == flt(SurfaceKey(slice[i + 1], axis), center[axis])
        RECURSIVE search(_, _)
        search(base, size) ==
            IF size > 1
            THEN search(IF pred(base + size \div 2) THEN base + size \div 2 ELSE base,
                        size - size \div 2)
            ELSE base
        found == search(0, Len(slice))
    IN  IF slice = <<>> THEN 0
        ELSE IF pred(found) THEN found + 1 ELSE found

\* Mutant: the sorted slice is written back as copies of its first surface.
ReplaceSlice_FirstOnly(surfaces, start, end, slice) ==
    [i \in 1..Len(surfaces) |->
        IF start <= i /\ i < end THEN slice[1] ELSE surfaces[i]]

\* The sequence with the elements start..end-1 replaced by the slice.
ReplaceSlice(surfaces, start, end, slice) ==
    [i \in 1..Len(surfaces) |->
        IF start <= i /\ i < end THEN slice[i - start + 1] ELSE surfaces[i]]

\* The scenes Bvh::new is run on without a query after it: a chain of spheres
\* at growing distances, two spheres whose union is as wide as it is high, a
\* sphere that spans the others, and an unbounded fog.
MaxBuildSurfaces == 4
BuildCatalogue ==
    <<Sphere(<<14, 0, 0>>, 1),
      UnitSphere,
      Sphere(<<6, 0, 0>>, 1),
      Sphere(<<2, 0, 0>>, 1),
      Sphere(<<2, 2, 0>>, 1),
      Sphere(<<0, 0, 0>>, 3),
      Sphere(<<0, 0, 4>>, 1),
      UniformFog(Unbounded)>>

RECURSIVE PickBuild(_, _)
PickBuild(indices, from) ==
    IF from > Len(BuildCatalogue) THEN <<>>
    ELSE IF from \in indices
         THEN <<BuildCatalogue[from]>> \o PickBuild(indices, from + 1)
         ELSE PickBuild(indices, from + 1)

BuildScenes ==
    {PickBuild(indices, 1) :
        indices \in {c \in SUBSET (1..Len(BuildCatalogue)) : Cardinality(c) <= MaxBuildSurfaces}}

NewBvh(scene, max_leaf_size) ==
    [surfaces |-> scene,
     max_leaf_size |-> max_leaf_size,
     nodes |-> <<Todo(1, Len(scene) + 1)>>,
     stack |-> <<1>>,
     phase |-> "new",
     ray |-> None,
     range |-> None,
     result |-> None,
     given |-> scene]

BvhBuildInit ==
    \E scene \in BuildScenes, max_leaf_size \in LeafCaps :
        bvh = NewBvh(scene, max_leaf_size)

BvhInit ==
    \E scene \in Scenes, max_leaf_size \in LeafCaps :
        bvh = NewBvh(scene, max_leaf_size)

\* One call of Bvh::new, up to its recursive calls.  A split that leaves one
\* side empty hands the other call the same surfaces again: that call splits
\* them the same way, and the recursion never returns (phase "overflow").
BvhNew ==
    /\ bvh.phase = "new"
    /\ bvh.stack # <<>>
    /\ LET i == Head(bvh.stack)
           node == bvh.nodes[i]
           slice == SubSeq(bvh.surfaces, node.start, node.end - 1)
           rest == Tail(bvh.stack)
           returned(kind) ==
               bvh' = [bvh EXCEPT !.nodes[i].kind = kind,
                                  !.stack = rest,
                                  !.phase = IF rest = <<>> THEN "built" ELSE "new"]
       IN  IF slice = <<>> THEN returned("Empty")
           ELSE IF Len(slice) <= bvh.max_leaf_size THEN returned("Leaf")
           ELSE LET aabb == UnionAabb(Tail(slice), Surface_aabb(Head(slice)))
                    size == Aabb_size(aabb)
                    center == Aabb_center(aabb)
                    axis == KeyAxis(size)
                IN  \E sorted \in SortedSlices(slice, axis) :
                        LET split == PartitionPoint(sorted, axis, center)
                            n == Len(bvh.nodes)
                        IN  bvh' = [bvh EXCEPT
                                !.surfaces = ReplaceSlice(@, node.start, node.end, sorted),
                                !.nodes = Append(Append(
                                    [@ EXCEPT ![i] = [kind |-> "Node",
                                                      start |-> node.start,
                                                      end |-> node.end,
                                                      aabb |-> aabb,
                                                      axis |-> axis,
                                                      left |-> n + 1,
                                                      right |-> n + 2]],
                                    Todo(node.start, node.start + split)),
                                    Todo(node.start + split, node.end)),
                                !.stack = <<n + 1, n + 2>> \o rest,
                                !.phase = IF split = 0 \/ split = Len(slice)
                                          THEN "overflow" ELSE "new"]
    /\ UNCHANGED NotBvh

RECURSIVE MinByDistance(_, _, _, _)
\* surfaces.iter().filter_map(hit).min_by(distance.total_cmp): the first of the
\* hits of the slice that total_cmp orders before the others (min_by keeps the
\* earlier of two hits that compare equal).  The material of a hit is its
\* surface.
MinByDistance(surfaces, by_ray, distance_range, best) ==
    IF surfaces = <<>> THEN best
    ELSE LET hit == Surface_hit(Head(surfaces), by_ray, distance_range, 0)
         IN  MinByDistance(Tail(surfaces), by_ray, distance_range,
                           IF hit = None THEN best
                           ELSE IF best = None THEN hit
                           ELSE IF total_cmp_less(hit, best, by_ray, distance_range) THEN hit
                           ELSE best)

\* The match on (left_hit, right_hit) of a Node.
NearerHit(left_hit, right_hit) ==
    IF left_hit # None /\ right_hit # None
    THEN (IF flt(left_hit.distance, right_hit.distance) THEN left_hit ELSE right_hit)
    ELSE IF left_hit # None THEN left_hit
    ELSE right_hit

RECURSIVE Bvh_hit(_, _, _, _, _)
\* Bvh::hit on the node i of the tree.
Bvh_hit(nodes, surfaces, i, by_ray, distance_range) ==
    LET node == nodes[i]
    IN  IF node.kind = "Empty" THEN None
        ELSE IF node.kind = "Leaf"
        THEN MinByDistance(SubSeq(surfaces, node.start, node.end - 1), by_ray, distance_range, None)
        ELSE IF Aabb_hit(node.aabb, by_ray, distance_range) # None
        THEN NearerHit(Bvh_hit(nodes, surfaces, node.left, by_ray, distance_range),
                       Bvh_hit(nodes, surfaces, node.right, by_ray, distance_range))
        ELSE None

\* bvh.hit(&ray, &range, rng) on the finished tree.
BvhHit ==
    /\ bvh.phase = "built"
    /\ \E origin \in SurfOrigins, direction \in AxisDirections, range \in SurfRanges :
        LET ray == [origin |-> origin, direction |-> direction]
        IN  bvh' = [bvh EXCEPT !.phase = "queried",
                               !.ray = ray,
                               !.range = range,
                               !.result = Bvh_hit(bvh.nodes, bvh.surfaces, 1, ray, range)]
    /\ UNCHANGED NotBvh

BvhIdle == bvh = Idle

(***************************************************************************)
(* tracer.rs: trace_ray and the three scattering effects                   *)
(*                                                                         *)
(* A Bare (an attenuation, a probability, a sample of a sequence) and a    *)
(* flux density are fractions <<numerator, denominator>>.  The hit of the  *)
(* bounce is an input: any hit a scene may give for the ray, with a unit   *)
(* normal against the ray.                                                 *)
(***************************************************************************)

MaxBounces == 3
\* The samples of the sequences tried: those the code turns into exact values.
EffectSamples == {ZERO, <<1, 2>>}
DiffusionSamples == {<<ZERO, ZERO>>, <<ZERO, <<1, 2>>>>}
MinAttenuations == {<<1, 1000000>>, <<1, 2>>}

\* f64::sin_cos of TAU * x for the fraction x of a turn, as <<sin, cos>>.  Only
\* the zero angle has a sine and a cosine the model can hold (the f64 values of
\* the other quarter turns carry a rounding residue): the CHOOSE has no value
\* for another x.
SinCosOfTurn(x) == CHOOSE sin_cos \in {<<0, 1>>} : x[1] = 0

\* Vec3::sample_unit_vector for the sample <<x, y>> of the sequence, each a
\* fraction: theta = TAU * x, z = 2 * y - 1, scale = sqrt(1 - z * z).
Vec3_sample_unit_vector(sample) ==
    LET z == fsub(fdiv(fmul(2, sample[2][1]), sample[2][2]), 1)
        scale == fsqrt(fsub(1, fmul(z, z)))
        theta_sin == SinCosOfTurn(sample[1])[1]
        theta_cos == SinCosOfTurn(sample[1])[2]
    IN  <<fmul(scale, theta_cos), fmul(scale, theta_sin), z>>

\* Ray::new
Ray_new(origin, direction) == [origin |-> origin, direction |-> Vec3_normalize(direction)]

\* The condition of Vec3::assert_normalized, |length_squared - 1| <= 10000 * EPSILON:
\* in the integers, a squared length of 1 (false for NaN).
Vec3_is_normalized(a) == Vec3_length_squared(a) = 1

\* Vec3::reflect_about: normal.assert_normalized() panics on a normal that is
\* not a unit vector.
Vec3_reflect_about(a, normal) ==
    IF ~Vec3_is_normalized(normal) THEN Panic
    ELSE Vec3_sub(a, Vec3_mul(normal, fmul(2, Vec3_dot(a, normal))))

\* The materials tried.  A reflectance is [attenuation, fuzz, diffusion], a
\* transmittance [incident_index, refracted_index, attenuation_coefficient]
\* (the coefficient in units of ln 2); None is Option::None and Some(x) the option of a number.
Some(x) == <<x>>
Reflectance(attenuation, fuzz, diffusion) ==
    [attenuation |-> attenuation, fuzz |-> fuzz, diffusion |-> diffusion]
Material(reflectance, transmittance, emittance) ==
    [reflectance |-> reflectance, transmittance |-> transmittance, emittance |-> emittance]
Vacuum == [incident_index |-> 1, refracted_index |-> 1, attenuation_coefficient |-> 0]
Glass == [incident_index |-> 1, refracted_index |-> 2, attenuation_coefficient |-> 1]
Materials ==
    {Material(None, None, None),
     Material(None, None, ONE),
     Material(Reflectance(ONE, None, ONE), None, None),
     Material(Reflectance(ONE, None, <<1, 2>>), None, None),
     Material(Reflectance(<<1, 2>>, None, None), None, None),
     Material(Reflectance(ONE, Some(0), None), None, None),
     Material(Reflectance(ONE, Some(1), None), None, None),
     Material(Reflectance(ONE, Some(1), <<1, 2>>), Vacuum, None),
     Material(Reflectance(ONE, None, None), None, ONE)}

\* RelativeRefractiveIndex::relative and ::reflectance (Schlick), as
\* fractions: incident / refracted, and r0 + (1 - r0) * (1 - cosine_theta_1)^5
\* with r0 = ((incident - refracted) / (incident + refracted))^2.
Relative(index) == <<index.incident, index.refracted>>
Quintic(x) == x * x * x * x * x
Schlick(index, cosine_theta_1) ==
    LET numerator == (index.incident - index.refracted) * (index.incident - index.refracted)
        denominator == (index.incident + index.refracted) * (index.incident + index.refracted)
    IN  <<numerator + (denominator - numerator) * Quintic(1 - cosine_theta_1), denominator>>

\* The indices of the two sides of the surface, by the type of the hit.
RefractiveIndex(hit) ==
    IF hit.type_ = "Enter"
    THEN [incident |-> hit.material.transmittance.incident_index,
          refracted |-> hit.material.transmittance.refracted_index]
    ELSE [incident |-> hit.material.transmittance.refracted_index,
          refracted |-> hit.material.transmittance.incident_index]

\* cosine_theta_1 = (-hit.normal.dot(incident_ray.direction)).min(1.0)
RefractionCosine(incident_ray, hit) ==
    fmin(fneg(Vec3_dot(hit.normal, incident_ray.direction)), 1)

\* sin_theta_2 = relative * sqrt(1 - cosine_theta_1^2), a fraction
SinTheta2(index, cosine_theta_1) ==
    <<index.incident * fsqrt(1 - cosine_theta_1 * cosine_theta_1), index.refracted>>

\* sin_theta_2 > 1.0
TotalInternalReflection(sin_theta_2) == FracLt(ONE, sin_theta_2)

\* Mutant: the reflectance never wins over the sample.
ReflectanceWins_Never(reflectance, effect_sample) == FALSE
\* refractive_index.reflectance(cosine_theta_1) > effect_check_sequence.next()
ReflectanceWins(reflectance, effect_sample) == FracLt(effect_sample, reflectance)

\* exp(-x) for x in units of ln 2: the attenuation coefficients of the model
\* are multiples of ln 2, so that the decay is a power of 1/2.
ExpNeg(x) == <<1, 2 ^ x>>

\* Mutant: the decay is applied at a hit of any type.
Decay_AnyType(hit) ==
    ExpNeg(hit.distance * hit.material.transmittance.attenuation_coefficient)
\* The attenuation of a refraction: the exponential decay over hit.distance
\* when the hit is from inside, else Bare::ONE.
Decay(hit) ==
    IF hit.type_ = "Leave"
    THEN ExpNeg(hit.distance * hit.material.transmittance.attenuation_coefficient)
    ELSE ONE

\* Tracer::trace_refraction: None, or <<ray, attenuation>>.  The assertion
\* cosine_theta_1 >= 0.0 is RefractionAssert.  The direction is computed times
\* the refracted index, which Ray::new normalizes away.
trace_refraction(incident_ray, hit, effect_sample) ==
    IF hit.material.transmittance = None THEN None
    ELSE LET refractive_index == RefractiveIndex(hit)
             cosine_theta_1 == RefractionCosine(incident_ray, hit)
             sin_theta_2 == SinTheta2(refractive_index, cosine_theta_1)
             cosine_theta_2 ==
                 fsqrt(sin_theta_2[2] * sin_theta_2[2] - sin_theta_2[1] * sin_theta_2[1])
             direction ==
                 Vec3_add(Vec3_mul(incident_ray.direction, refractive_index.incident),
                          Vec3_mul(hit.normal,
                                   fsub(fmul(refractive_index.incident, cosine_theta_1),
                                        cosine_theta_2)))
         IN  IF TotalInternalReflection(sin_theta_2) THEN None
             ELSE IF ReflectanceWins(Schlick(refractive_index, cosine_theta_1), effect_sample)
             THEN None
             ELSE <<Ray_new(hit.location, direction), Decay(hit)>>

\* The number of samples trace_refraction takes from effect_check_sequence.
trace_refraction_draws(incident_ray, hit) ==
    IF hit.material.transmittance = None THEN 0
    ELSE IF TotalInternalReflection(SinTheta2(RefractiveIndex(hit),
                                              RefractionCosine(incident_ray, hit)))
    THEN 0
    ELSE 1

RefractionAssert(incident_ray, hit) ==
    hit.material.transmittance # None => fle(0, RefractionCosine(incident_ray, hit))

\* The assertion of reflect_about, which trace_specular_reflection reaches for
\* a material with a reflectance.
ReflectionAssert(hit) ==
    hit.material.reflectance # None => Vec3_is_normalized(hit.normal)

\* Bare * f64 / 2.0 for the length of a direction (1, or NaN).
HalfTimes(attenuation, length) ==
    IF IsNaN(length) THEN <<NaN, 1>> ELSE Reduce(<<attenuation[1] * length, 2 * attenuation[2]>>)

\* Tracer::trace_diffusion.  ray.direction is normalized by Ray::new, so
\* ray.direction.length() is 1 (NaN if the direction is).
trace_diffusion(hit, effect_sample, diffusion_sample) ==
    IF hit.material.reflectance = None THEN None
    ELSE IF hit.material.reflectance.diffusion = None THEN None
    ELSE IF FracLt(hit.material.reflectance.diffusion, effect_sample) THEN None
    ELSE LET ray == Ray_new(hit.location,
                            Vec3_add(hit.normal, Vec3_sample_unit_vector(diffusion_sample)))
         IN  <<ray, HalfTimes(hit.material.reflectance.attenuation,
                              Vec3_length(ray.direction))>>

\* Tracer::trace_specular_reflection
trace_specular_reflection(incident_ray, hit, diffusion_sample) ==
    IF hit.material.reflectance = None THEN None
    ELSE LET reflectance == hit.material.reflectance
             ray == Ray_new(hit.location, Vec3_reflect_about(incident_ray.direction, hit.normal))
         IN  IF reflectance.fuzz # None
             THEN <<[ray EXCEPT !.direction =
                        Vec3_normalize(Vec3_add(@, Vec3_mul(
                            Vec3_sample_unit_vector(diffusion_sample), reflectance.fuzz[1])))],
                    reflectance.attenuation>>
             ELSE <<ray, reflectance.attenuation>>

\* Mutant: diffusion is tried after specular reflection.
Scatter_SpecularFirst(ray, hit, u_refraction, u_diffusion, diffusion_sample) ==
    IF trace_refraction(ray, hit, u_refraction) # None
    THEN trace_refraction(ray, hit, u_refraction)
    ELSE IF trace_specular_reflection(ray, hit, diffusion_sample) # None
    THEN trace_specular_reflection(ray, hit, diffusion_sample)
    ELSE trace_diffusion(hit, u_diffusion, diffusion_sample)

\* The scattered ray of a bounce: refraction, else diffusion, else specular
\* reflection, else None.
Scatter(ray, hit, u_refraction, u_diffusion, diffusion_sample) ==
    IF trace_refraction(ray, hit, u_refraction) # None
    THEN trace_refraction(ray, hit, u_refraction)
    ELSE IF trace_diffusion(hit, u_diffusion, diffusion_sample) # None
    THEN trace_diffusion(hit, u_diffusion, diffusion_sample)
    ELSE trace_specular_reflection(ray, hit, diffusion_sample)

\* The hits a scene may give for the ray: at distance 1, with a unit normal along
\* an axis and against the ray.
TraceHits(ray) ==
    {Hit(1, Ray_at(ray, 1), normal, type_, material) :
        normal \in {n \in AxisDirections : Vec3_dot(n, ray.direction) <= 0},
        type_ \in {"Enter", "Leave"},
        material \in Materials}

IsSquare(x) == \E k \in 0..x : k * k = x
\* The sums the code normalizes have an exact length in the model.
ExactBounce(ray, hit, diffusion_sample) ==
    LET sample == Vec3_sample_unit_vector(diffusion_sample)
        reflected == Vec3_reflect_about(ray.direction, hit.normal)
    IN  /\ IsSquare(Vec3_length_squared(Vec3_add(hit.normal, sample)))
        /\ IsSquare(Vec3_length_squared(Vec3_add(reflected, sample)))

\* Mutant: the loop runs once more than n_bounces_left.
BouncesLeft_OneMore(i, n_bounces_left) == i <= n_bounces_left
\* for _ in 0..n_bounces_left: whether the iteration i (from 0) runs.
BouncesLeft(i, n_bounces_left) == i < n_bounces_left

\* Mutant: the attenuation is never found below the floor.
BelowFloor_Never(total_attenuation, min_attenuation) == FALSE
\* total_attenuation < Bare::from(self.options.min_attenuation)
BelowFloor(total_attenuation, min_attenuation) == FracLt(total_attenuation, min_attenuation)

\* Mutant: the ambient term is not weighted by the attenuation.
AmbientTerm_Unattenuated(total_attenuation, scene_emittance) == scene_emittance
\* total_attenuation * scene_emittance, the term added when nothing is hit.
AmbientTerm(total_attenuation, scene_emittance) == FracMul(total_attenuation, scene_emittance)

\* Mutant: the emittance is added on a hit of any type.
Emits_AnyType(hit) == hit.material.emittance # None
\* hit.type_ == HitType::Enter && let Some(emittance) = &hit.material.emittance
Emits(hit) == hit.type_ = "Enter" /\ hit.material.emittance # None

\* The fields after `phase` are history: the number of calls of bvh.hit, why
\* the loop ended, the hit and the samples of the last bounce, the ray and the
\* attenuation before it, and the two parts of total_flux_density.
\* The directions of the first ray: along z towards the scene and along x (the
\* sampled unit vectors are in the plane y = 0, the other axes behave alike).
FirstDirections == {<<0, 0, -1>>, <<1, 0, 0>>}

TraceInit ==
    \E direction \in FirstDirections, n_bounces_left \in 1..MaxBounces,
       min_attenuation \in MinAttenuations :
        trace = [ray |-> [origin |-> <<0, 0, 0>>, direction |-> direction],
                 n_bounces_left |-> n_bounces_left,
                 min_attenuation |-> min_attenuation,
                 scene_emittance |-> ONE,
                 i |-> 0,
                 total_flux_density |-> ZERO,
                 total_attenuation |-> ONE,
                 scattered |-> None,
                 phase |-> "loop",
                 queries |-> 0,
                 exit |-> "",
                 bounce |-> None,
                 emitted |-> ZERO,
                 ambient |-> ZERO]

\* One iteration of the loop of trace_ray, with the hit bvh.hit returns and the
\* samples the sequences give as inputs.
TraceBounce ==
    /\ trace.phase = "loop"
    /\ IF BelowFloor(trace.total_attenuation, trace.min_attenuation)
       THEN trace' = [trace EXCEPT !.phase = "returned", !.scattered = None,
                                   !.exit = "floor", !.bounce = None]
       ELSE \/ \* the ray hit nothing
               LET ambient == AmbientTerm(trace.total_attenuation, trace.scene_emittance)
               IN  trace' = [trace EXCEPT
                                !.phase = "returned",
                                !.scattered = None,
                                !.total_flux_density = FracAdd(@, ambient),
                                !.queries = @ + 1,
                                !.exit = "miss",
                                !.bounce = None,
                                !.ambient = FracAdd(@, ambient)]
            \/ \E hit \in TraceHits(trace.ray), u_refraction \in EffectSamples,
                  u_diffusion \in EffectSamples, diffusion_sample \in DiffusionSamples :
                /\ ExactBounce(trace.ray, hit, diffusion_sample)
                /\ LET emits == Emits(hit)
                       emittance == IF emits
                                    THEN FracMul(trace.total_attenuation, hit.material.emittance)
                                    ELSE ZERO
                       emitted == IF emits THEN FracAdd(trace.total_flux_density, emittance)
                                  ELSE trace.total_flux_density
                       scattered == Scatter(trace.ray, hit, u_refraction, u_diffusion,
                                            diffusion_sample)
                       queried == [trace EXCEPT
                                      !.queries = @ + 1,
                                      !.total_flux_density = emitted,
                                      !.emitted = FracAdd(@, emittance),
                                      !.bounce = [hit |-> hit,
                                                  u_refraction |-> u_refraction,
                                                  u_diffusion |-> u_diffusion,
                                                  diffusion_sample |-> diffusion_sample,
                                                  ray |-> trace.ray,
                                                  total_attenuation |-> trace.total_attenuation]]
                   IN  IF ~RefractionAssert(trace.ray, hit)
                       THEN trace' = [queried EXCEPT !.phase = "panicked", !.exit = "panic"]
                       ELSE IF /\ trace_refraction(trace.ray, hit, u_refraction) = None
                               /\ trace_diffusion(hit, u_diffusion, diffusion_sample) = None
                               /\ ~ReflectionAssert(hit)
                       THEN trace' = [queried EXCEPT !.phase = "panicked", !.exit = "panic"]
                       ELSE IF scattered = None
                       THEN trace' = [queried EXCEPT !.phase = "returned",
                                                     !.scattered = None,
                                                     !.exit = "absorbed"]
                       ELSE IF ~Vec3_is_finite(scattered[1].direction)
                       THEN trace' = [queried EXCEPT !.phase = "panicked",
                                                     !.scattered = scattered[1],
                                                     !.exit = "panic"]
                       ELSE trace' = [queried EXCEPT
                               !.i = @ + 1,
                               !.phase = IF BouncesLeft(trace.i + 1, trace.n_bounces_left)
                                         THEN "loop" ELSE "returned",
                               !.exit = IF BouncesLeft(trace.i + 1, trace.n_bounces_left)
                                        THEN "" ELSE "exhausted",
                               !.scattered = scattered[1],
                               !.ray = scattered[1],
                               !.total_attenuation = FracMul(@, scattered[2])]
    /\ UNCHANGED NotTrace

TraceIdle == trace = Idle

(***************************************************************************)
(* tracer.rs: Tracer::trace, and main.rs: convert_pixels_to_image          *)
(*                                                                         *)
(* The workers are the threads of the rayon pool.  A worker takes an item  *)
(* of the shuffled y_indices, renders the row pixel by pixel, locks the    *)
(* progress mutex, increments the position (a read and a write), unlocks,  *)
(* and only then leaves (y, row) in the slot of the item (collect_into_vec *)
(* keeps the order of the items).  A generator of fastrand is a number of  *)
(* 0..GenModulus-1; a thread-local generator starts from entropy.  A       *)
(* colour is the record of what render_pixel computed it from.             *)
(*                                                                         *)
(* render_pixel panics when an assertion of trace_ray fails.  The pool     *)
(* catches the panic of the closure and keeps it; its threads go on with   *)
(* the items they have and may take more; once no closure is running the   *)
(* panic is resumed in the thread that called collect_into_vec, and trace  *)
(* unwinds from line 92: nothing after it is executed.                     *)
(***************************************************************************)
MaxHeight == 2
Widths == {1, 2}
Threads == {1, 2}
Entropy == {0, 1}
GenModulus == 8
GenNext(g) == (5 * g + 3) % GenModulus

Unlocked == 0
\* Mutant: the lock is taken without waiting for it.
MutexFree_NoWait(progress) == TRUE
\* Mutex::lock returns once no thread holds the mutex.
MutexFree(progress) == progress.holder = Unlocked

\* Mutant: the row of the image is the position of the entry in rows.
ImageRow_ByPosition(k, entry) == k - 1
\* for (y, row) in rows: the row of the image the entry is written to.
ImageRow(k, entry) == entry[1]

\* Tracer::render_pixel: the colour, and the generators after it.  The offset
\* of the Halton sequence is two values of the generator of the row, and the
\* two RandomSequence::new() fork the generator of the thread.
RenderPixel(x, y, rng, generator) ==
    LET offset_x == GenNext(rng)
        offset_y == GenNext(offset_x)
        diffusion == GenNext(generator)
        effect == GenNext(diffusion)
    IN  [color |-> [x |-> x, y |-> y, offset |-> <<offset_x, offset_y>>,
                    diffusion |-> diffusion, effect |-> effect],
         rng |-> offset_y,
         generator |-> effect]

Rows(r) == 0..(r.output_height - 1)
Columns(r) == 0..(r.output_width - 1)
Workers(r) == 1..r.n_threads

NewRender(output_height, output_width, n_threads, run, previous) ==
    [output_height |-> output_height,
     output_width |-> output_width,
     n_threads |-> n_threads,
     phase |-> "new",
     y_indices |-> <<>>,
     claimed |-> {},
     rows |-> [k \in 1..output_height |-> None],
     progress |-> [position |-> 0, length |-> output_height, finished |-> 0,
                   holder |-> Unlocked],
     workers |-> [w \in 1..n_threads |->
                    [pc |-> "idle", item |-> 0, y |-> 0, row |-> <<>>, rng |-> 0,
                     position |-> 0, generator |-> 0]],
     panicked |-> FALSE,
     k |-> 1,
     image |-> [p \in (0..(output_width - 1)) \X (0..(output_height - 1)) |-> None],
     \* history: what happened to each row and to each pixel
     incremented |-> [y \in 0..(output_height - 1) |-> 0],
     rendered_by |-> [y \in 0..(output_height - 1) |-> {}],
     writes |-> [p \in (0..(output_width - 1)) \X (0..(output_height - 1)) |-> 0],
     run |-> run,
     previous |-> previous]

RenderInit ==
    \E output_height \in 1..MaxHeight, output_width \in Widths, n_threads \in Threads :
        render = NewRender(output_height, output_width, n_threads, 1, None)

\* y_indices = (0..output_height).collect(); fastrand::shuffle(&mut y_indices);
\* the threads of the pool seed their generators from entropy.
RenderShuffle ==
    /\ render.phase = "new"
    /\ \E perm \in [1..render.output_height -> Rows(render)],
          entropy \in [Workers(render) -> Entropy] :
        /\ \A i, j \in 1..render.output_height : perm[i] = perm[j] => i = j
        /\ render' = [render EXCEPT
                         !.phase = "rows",
                         !.y_indices = perm,
                         !.workers = [w \in Workers(render) |->
                                         [@[w] EXCEPT !.generator = entropy[w]]]]
    /\ UNCHANGED NotRender

\* The closure of map starts on an item: let mut rng = Rng::new().
WorkerTake(w) ==
    /\ render.phase = "rows"
    /\ render.workers[w].pc = "idle"
    /\ \E item \in (1..render.output_height) \ render.claimed :
        LET seed == GenNext(render.workers[w].generator)
        IN  render' = [render EXCEPT
                          !.claimed = @ \cup {item},
                          !.workers[w] = [@ EXCEPT !.pc = "row",
                                                   !.item = item,
                                                   !.y = render.y_indices[item],
                                                   !.row = <<>>,
                                                   !.rng = seed,
                                                   !.generator = seed]]
    /\ UNCHANGED NotRender

\* self.render_pixel(x, y, &mut rng) for the next x of the row: it returns the
\* colour, or it panics (an assertion of trace_ray fails on a sample of the
\* sequences).  The panic unwinds the closure: the row is dropped, the position
\* is not incremented for it, and the pool keeps the panic.  The two
\* RandomSequence::new() of render_pixel have stepped the generator of the
\* thread before trace_ray runs, so the generator is that of a pixel rendered;
\* the rng of the closure is dropped with it.
WorkerPixel(w) ==
    LET worker == render.workers[w]
        pixel_ == RenderPixel(Len(worker.row), worker.y, worker.rng, worker.generator)
    IN  /\ worker.pc = "row"
        /\ Len(worker.row) < render.output_width
        /\ \E panics \in BOOLEAN :
            render' = IF panics
                      THEN [render EXCEPT
                               !.workers[w] = [@ EXCEPT !.pc = "idle", !.row = <<>>,
                                                        !.generator = pixel_.generator],
                               !.panicked = TRUE]
                      ELSE [render EXCEPT
                               !.workers[w] = [@ EXCEPT !.row = Append(@, pixel_.color),
                                                        !.rng = pixel_.rng,
                                                        !.generator = pixel_.generator],
                               !.rendered_by[worker.y] = @ \cup {w}]
        /\ UNCHANGED NotRender

\* progress.lock()
WorkerLock(w) ==
    /\ render.workers[w].pc = "row"
    /\ Len(render.workers[w].row) = render.output_width
    /\ MutexFree(render.progress)
    /\ render' = [render EXCEPT !.progress.holder = w, !.workers[w].pc = "locked"]
    /\ UNCHANGED NotRender

\* .inc(1): the position is read ...
WorkerRead(w) ==
    /\ render.workers[w].pc = "locked"
    /\ render' = [render EXCEPT !.workers[w].pc = "read",
                                !.workers[w].position = render.progress.position]
    /\ UNCHANGED NotRender

\* ... and written back one higher.
WorkerWrite(w) ==
    /\ render.workers[w].pc = "read"
    /\ render' = [render EXCEPT !.workers[w].pc = "written",
                                !.progress.position = render.workers[w].position + 1,
                                !.incremented[render.workers[w].y] = @ + 1]
    /\ UNCHANGED NotRender

\* The guard is a temporary of the statement progress.lock().unwrap().inc(1):
\* it is dropped at the end of the statement, before (y, row) is built.
WorkerUnlock(w) ==
    /\ render.workers[w].pc = "written"
    /\ render' = [render EXCEPT !.progress.holder = Unlocked,
                                !.workers[w].pc = "unlocked"]
    /\ UNCHANGED NotRender

\* The closure returns (y, row) and collect_into_vec stores it in the slot of
\* the item.
WorkerReturn(w) ==
    LET worker == render.workers[w]
    IN  /\ worker.pc = "unlocked"
        /\ render' = [render EXCEPT !.workers[w].pc = "idle",
                                    !.rows[worker.item] = <<worker.y, worker.row>>]
        /\ UNCHANGED NotRender

\* collect_into_vec has every row: progress.lock().unwrap().finish(); Ok(rows).
\* ProgressBar::finish sets the position to the length and marks the bar
\* finished.
RenderFinish ==
    /\ render.phase = "rows"
    /\ ~render.panicked
    /\ \A k \in 1..render.output_height : render.rows[k] # None
    /\ MutexFree(render.progress)
    /\ render' = [render EXCEPT !.phase = "convert",
                                !.progress.position = render.progress.length,
                                !.progress.finished = @ + 1]
    /\ UNCHANGED NotRender

\* collect_into_vec resumes the panic of a closure in the thread of trace once
\* no closure is running: trace unwinds, finish() is not called and no rows
\* are returned.
RenderUnwind ==
    /\ render.phase = "rows"
    /\ render.panicked
    /\ \A w \in Workers(render) : render.workers[w].pc = "idle"
    /\ render' = [render EXCEPT !.phase = "panicked"]
    /\ UNCHANGED NotRender

\* The colours of all the rows: max_intensity and the scale depend on them all.
AllColors(r) ==
    {r.rows[k][2][i] : k \in 1..r.output_height, i \in 1..r.output_width}

\* One iteration of `for (y, row) in rows` of convert_pixels_to_image.
ConvertRow ==
    /\ render.phase = "convert"
    /\ LET entry == render.rows[render.k]
           y == ImageRow(render.k, entry)
           written(p) == p[2] = y /\ p[1] < Len(entry[2])
       IN  render' = [render EXCEPT
               !.k = @ + 1,
               !.phase = IF render.k = render.output_height THEN "done" ELSE "convert",
               !.image = [p \in DOMAIN @ |->
                            IF written(p)
                            THEN [color |-> entry[2][p[1] + 1], scaled_by |-> AllColors(render)]
                            ELSE @[p]],
               !.writes = [p \in DOMAIN @ |-> IF written(p) THEN @[p] + 1 ELSE @[p]]]
    /\ UNCHANGED NotRender

\* The same scene is rendered once more, on one thread.
RenderAgain ==
    /\ render.phase = "done"
    /\ render.run = 1
    /\ render' = NewRender(render.output_height, render.output_width, render.n_threads,
                           2, render.image)
    /\ UNCHANGED NotRender

RenderOnceInit ==
    \E output_height \in 1..MaxHeight, output_width \in Widths :
        render = NewRender(output_height, output_width, 1, 1, None)

RenderIdle == render = Idle

(***************************************************************************)
(* math/aabb.rs: impl BitOr for Aabb, on three boxes                       *)
(***************************************************************************)
UnionBoxes == Boxes \cup {Sphere_aabb(PointSphere), Triangle_aabb(FlatTriangle)}

BitorInit ==
    \E a \in UnionBoxes, b \in UnionBoxes, c \in UnionBoxes :
        bitor = [a |-> a, b |-> b, c |-> c, done |-> FALSE,
                 a_b |-> None, b_a |-> None, ab_c |-> None, a_bc |-> None]

\* a | b, b | a, (a | b) | c and a | (b | c)
BitorApply ==
    /\ ~bitor.done
    /\ bitor' = [bitor EXCEPT
                    !.done = TRUE,
                    !.a_b = Aabb_bitor(bitor.a, bitor.b),
                    !.b_a = Aabb_bitor(bitor.b, bitor.a),
                    !.ab_c = Aabb_bitor(Aabb_bitor(bitor.a, bitor.b), bitor.c),
                    !.a_bc = Aabb_bitor(bitor.a, Aabb_bitor(bitor.b, bitor.c))]
    /\ UNCHANGED NotBitor

BitorIdle == bitor = Idle

(***************************************************************************)
(* main.rs: convert_pixels_to_image, up to the scaled colours              *)
(*                                                                         *)
(* A component of an XyzColor is a fraction <<numerator, denominator>>     *)
(* whose denominator is a power of two, so that color * scale is the same  *)
(* number in f64.  The image holds the 16-bit pixel put; the history keeps *)
(* color * scale of every pixel, the value the conversion to sRGB and the  *)
(* gamma are applied to.                                                   *)
(***************************************************************************)
MaxConvertRows == 2
ConvertWidths == {1, 2}
\* Black, two dim colours, a green of intensity 1 and a bright colour.
ConvertPixels ==
    {<<ZERO, ZERO, ZERO>>,
     <<<<1, 512>>, ZERO, ZERO>>,
     <<ZERO, ZERO, <<1, 512>>>>,
     <<ZERO, ONE, ZERO>>,
     <<<<32, 1>>, <<128, 1>>, <<16, 1>>>>}
\* The values of --gamma tried: -1.0, 0.0, the default 1.0, INFINITY and NaN.
Gammas == {-1, 0, 1, INFINITY, NaN}

\* f64::max on two numbers
FracMax(p, q) == IF FracLt(p, q) THEN q ELSE p

\* XyzColor::max_element
Xyz_max_element(color) == FracMax(color[1], FracMax(color[2], color[3]))

\* The elements of all the rows: rows.iter().flat_map(|(_, row)| row)
FlatPixels(rows) ==
    LET RECURSIVE flat(_)
        flat(k) == IF k > Len(rows) THEN <<>> ELSE rows[k][2] \o flat(k + 1)
    IN  flat(1)

\* .map(max_element).max_by(total_cmp): the last of the greatest, or None.
MaxBy(pixels) ==
    LET RECURSIVE max_by(_, _)
        max_by(k, best) ==
            IF k > Len(pixels) THEN best
            ELSE LET x == Xyz_max_element(pixels[k])
                 IN  max_by(k + 1, IF best = None THEN x
                                   ELSE IF FracLt(x, best) THEN best ELSE x)
    IN  max_by(1, None)

\* Mutant: max_intensity clamped below by 0.5 instead of 1.0.
MaxIntensity_LowFloor(rows) ==
    LET greatest == MaxBy(FlatPixels(rows))
    IN  FracMax(IF greatest = None THEN ONE ELSE greatest, <<1, 2>>)
\* max_intensity: ... .unwrap_or(1.0).max(1.0)
MaxIntensity(rows) ==
    LET greatest == MaxBy(FlatPixels(rows))
    IN  FracMax(IF greatest = None THEN ONE ELSE greatest, ONE)

\* scale = 1.0 / max_intensity
Scale(max_intensity) == <<max_intensity[2], max_intensity[1]>>

\* color * scale
Xyz_mul(color, scale) ==
    <<FracMul(color[1], scale), FracMul(color[2], scale), FracMul(color[3], scale)>>

\* XYZ_TO_RED, XYZ_TO_GREEN and XYZ_TO_BLUE, in ten-thousandths.  They are
\* defined in color/cie_1964.rs, which is not among the sources: the rows are
\* those of the standard matrix from XYZ to linear sRGB.
XYZ_TO_RGB ==
    <<<<32406, -15372, -4986>>, <<-9689, 18758, 415>>, <<557, -2040, 10570>>>>

\* value.dot(XYZ_TO_...) for a colour of three fractions, as a fraction.
LinearChannel(value, xyz_to_channel) ==
    LET d == value[1][2] * value[2][2] * value[3][2]
    IN  <<xyz_to_channel[1] * value[1][1] * (d \div value[1][2])
             + xyz_to_channel[2] * value[2][1] * (d \div value[2][2])
             + xyz_to_channel[3] * value[3][1] * (d \div value[3][2]),
          10000 * d>>

RECURSIVE MulDiv(_, _, _)
\* <<(a * b) \div q, (a * b) % q>> for a, b >= 0 and q > 0, by doubling: the
\* product itself is never formed.
MulDiv(a, b, q) ==
    IF b = 0 THEN <<0, 0>>
    ELSE LET half == MulDiv(a, b \div 2, q)
             rest == 2 * half[2] + (b % 2) * (a % q)
         IN  <<2 * half[1] + (b % 2) * (a \div q) + rest \div q, rest % q>>

RECURSIVE Gcd(_, _)
Gcd(a, b) == IF b = 0 THEN a ELSE Gcd(b, a % b)
\* The fraction in lowest terms.
Lowest(q) == <<q[1] \div Gcd(q[1], q[2]), q[2] \div Gcd(q[1], q[2])>>

\* linear_color <= 0.0031308, for a linear value of (0.0, 1.0)
IsLinearSegment(linear) ==
    LET parts == MulDiv(2500000, linear[1], linear[2])
    IN  parts[1] < 7827 \/ (parts[1] = 7827 /\ parts[2] = 0)

\* (12.92 * linear_color * 65535.0).round(): 846712.2 * linear, and a half
\* rounds away from zero.
LinearSegment16(linear) == (MulDiv(8467122, linear[1], linear[2])[1] + 5) \div 10

\* ((1.055 * linear_color.powf(1.0 / 2.4) - 0.055) * 65535.0).round() in f64
\* arithmetic, for the linear values of the colours converted and for powers of
\* two; the power has no value in the fractions of the model.
PowerSegment16 ==
    {<<<<1, 256>>, 3255>>,
     <<<<1057, 256000>>, 3415>>,
     <<<<16203, 2560000>>, 4783>>,
     <<<<1, 128>>, 5552>>,
     <<<<16203, 1280000>>, 7591>>,
     <<<<9379, 640000>>, 8296>>,
     <<<<1, 64>>, 8618>>,
     <<<<1, 32>>, 12710>>,
     <<<<1, 16>>, 18173>>,
     <<<<1, 8>>, 25465>>,
     <<<<1, 4>>, 35199>>,
     <<<<1, 2>>, 48192>>,
     <<<<3, 4>>, 57725>>}

\* srgb_gamma_correction(linear_color) as u16, for a linear value of (0.0, 1.0):
\* the clamps keep the corrected value.
Srgb16(linear) ==
    IF IsLinearSegment(Lowest(linear)) THEN LinearSegment16(Lowest(linear))
    ELSE (CHOOSE entry \in PowerSegment16 : entry[1] = Lowest(linear))[2]

(***************************************************************************)
(* The f64 arithmetic of value.dot(XYZ_TO_...), for the one case the        *)
(* fractions leave open: a dot product of exactly one.  A finite f64 is     *)
(* [neg, digits]: its sign, and its magnitude in units of 2^-120 as digits  *)
(* of base 1024 (ten binary digits each), the lowest first and the highest  *)
(* not 0.  The magnitudes are above 2^-60, so no binary digit of a rounded  *)
(* result lies below the unit.                                              *)
(***************************************************************************)
FractionZeros == [i \in 1..12 |-> 0]

RECURSIVE Pow2(_)
Pow2(k) == IF k = 0 THEN 1 ELSE 2 * Pow2(k - 1)

RECURSIVE DigitsOf(_)
\* The digits of a natural number.
DigitsOf(n) == IF n = 0 THEN <<>> ELSE <<n % 1024>> \o DigitsOf(n \div 1024)

RECURSIVE DigitsTrim(_)
DigitsTrim(a) ==
    IF a # <<>> /\ a[Len(a)] = 0 THEN DigitsTrim(SubSeq(a, 1, Len(a) - 1)) ELSE a

RECURSIVE DigitsAdd(_, _, _)
\* a + b + carry
DigitsAdd(a, b, carry) ==
    IF a = <<>> /\ b = <<>> THEN (IF carry = 0 THEN <<>> ELSE <<carry>>)
    ELSE LET sum == (IF a = <<>> THEN 0 ELSE Head(a))
                       + (IF b = <<>> THEN 0 ELSE Head(b)) + carry
         IN  <<sum % 1024>> \o DigitsAdd(IF a = <<>> THEN a ELSE Tail(a),
                                         IF b = <<>> THEN b ELSE Tail(b), sum \div 1024)

RECURSIVE DigitsSub(_, _, _)
\* a - b - borrow, for a >= b + borrow
DigitsSub(a, b, borrow) ==
    IF a = <<>> THEN <<>>
    ELSE LET difference == 1024 + Head(a) - (IF b = <<>> THEN 0 ELSE Head(b)) - borrow
         IN  <<difference % 1024>>
                \o DigitsSub(Tail(a), IF b = <<>> THEN b ELSE Tail(b),
                             1 - difference \div 1024)

RECURSIVE DigitsLess(_, _)
\* a < b, for two magnitudes without leading zeros
DigitsLess(a, b) ==
    IF Len(a) # Len(b) THEN Len(a) < Len(b)
    ELSE IF a = <<>> THEN FALSE
    ELSE IF a[Len(a)] # b[Len(b)] THEN a[Len(a)] < b[Len(b)]
    ELSE DigitsLess(DigitsTrim(SubSeq(a, 1, Len(a) - 1)),
                    DigitsTrim(SubSeq(b, 1, Len(b) - 1)))

RECURSIVE DigitsScale(_, _, _)
\* a * digit + carry
DigitsScale(a, digit, carry) ==
    IF a = <<>> THEN DigitsOf(carry)
    ELSE LET product == Head(a) * digit + carry
         IN  <<product % 1024>> \o DigitsScale(Tail(a), digit, product \div 1024)

RECURSIVE DigitsMul(_, _)
DigitsMul(a, b) ==
    IF b = <<>> THEN <<>>
    ELSE DigitsAdd(DigitsScale(a, Head(b), 0), <<0>> \o DigitsMul(a, Tail(b)), 0)

RECURSIVE DigitsDiv(_, _)
\* <<a \div q, a % q>> for a divisor below 2^21, the quotient as digits
DigitsDiv(a, q) ==
    IF a = <<>> THEN <<<<>>, 0>>
    ELSE LET high == DigitsDiv(Tail(a), q)
             rest == 1024 * high[2] + Head(a)
         IN  <<<<rest \div q>> \o high[1], rest % q>>

\* The number of binary digits of a magnitude.
BitLength(a) ==
    IF a = <<>> THEN 0
    ELSE 10 * (Len(a) - 1)
            + (CHOOSE k \in 1..10 : Pow2(k - 1) <= a[Len(a)] /\ a[Len(a)] < Pow2(k))

\* The magnitude rounded to the 53 binary digits of an f64, to nearest and a
\* tie to even: half of the lowest place kept is added, less one unit where a
\* tie goes down, and the digits below that place are cleared.  `inexact` says
\* that digits below the unit were lost before.
Round53(a, inexact) ==
    LET dropped == BitLength(a) - 53
        whole == dropped \div 10
        part == Pow2(dropped % 10)
        odd == (a[whole + 1] \div part) % 2 = 1
        half == [i \in 1..((dropped - 1) \div 10) |-> 0] \o <<Pow2((dropped - 1) % 10)>>
        sum == IF inexact \/ odd THEN DigitsAdd(a, half, 0)
               ELSE DigitsSub(DigitsAdd(a, half, 0), <<1>>, 0)
    IN  IF dropped <= 0 THEN a
        ELSE DigitsTrim([i \in 1..Len(sum) |->
                            IF i <= whole THEN 0
                            ELSE IF i = whole + 1 THEN (sum[i] \div part) * part
                            ELSE sum[i]])

\* The f64 nearest to a fraction: a literal of the source or a component of a colour.
F64Of(q) ==
    LET parts == DigitsDiv(FractionZeros \o DigitsOf(IF q[1] < 0 THEN -q[1] ELSE q[1]), q[2])
    IN  [neg |-> q[1] < 0, digits |-> Round53(DigitsTrim(parts[1]), parts[2] # 0)]

\* a * b
F64Mul(a, b) ==
    LET product == Round53(DigitsTrim(DigitsMul(a.digits, b.digits)), FALSE)
    IN  [neg |-> a.neg # b.neg,
         digits |-> SubSeq(product, Len(FractionZeros) + 1, Len(product))]

\* a + b
F64Add(a, b) ==
    IF a.neg = b.neg
    THEN [neg |-> a.neg, digits |-> Round53(DigitsAdd(a.digits, b.digits, 0), FALSE)]
    ELSE IF DigitsLess(a.digits, b.digits)
    THEN [neg |-> b.neg,
          digits |-> Round53(DigitsTrim(DigitsSub(b.digits, a.digits, 0)), FALSE)]
    ELSE [neg |-> a.neg /\ a.digits # b.digits,
          digits |-> Round53(DigitsTrim(DigitsSub(a.digits, b.digits, 0)), FALSE)]

\* self.x * rhs.x + self.y * rhs.y + self.z * rhs.z in f64, for a colour of
\* three fractions and a row of the matrix in ten-thousandths.
F64Dot(value, xyz_to_channel) ==
    LET term(i) == F64Mul(F64Of(value[i]), F64Of(<<xyz_to_channel[i], 10000>>))
    IN  F64Add(F64Add(term(1), term(2)), term(3))

\* srgb_gamma_correction(value.dot(XYZ_TO_...)) >= 1.0, for a dot product that
\* is one in fractions and within a few ulps of 1.0 in f64: the correction of
\* 1.0 and of the next f64 above it is 0.9999999999999999, that of 1.0 + 2^-51
\* or more is 1.0 or more.
CorrectedIsOne(value, xyz_to_channel) ==
    LET dot == F64Dot(value, xyz_to_channel)
        least == DigitsAdd(FractionZeros \o <<1>>,
                           [i \in 1..6 |-> 0] \o <<Pow2(9)>>, 0)
    IN  ~dot.neg /\ ~DigitsLess(dot.digits, least)

\* One channel of RgbColor::from(value).apply_gamma(gamma) as u16:
\* srgb_gamma_correction keeps the sign of the linear value, maps a value
\* below 1.0 below 1.0 and a value above 1.0 above it; the clamp brings the
\* channel into [0.0, 1.0]; powf raises it to gamma; From<RgbColor> clamps the
\* power into [0.0, 1.0] again, and the channel times 65535 is rounded and cast
\* (NaN as u16 is 0).
\*  - gamma NaN or INFINITY: the power of 1.0 is 1.0, and the power of any other
\*    channel is NaN or 0.0; the channel is 1.0 when the linear value is above
\*    one, and when it is one and the rounding of the dot product makes the
\*    corrected value 1.0 or more.
\*  - gamma <= 0.0: anything to the power 0.0 is 1.0, and a channel of
\*    [0.0, 1.0] to a negative power is 1.0 or more (INFINITY for 0.0), which
\*    the second clamp sets to 1.0.
\*  - a finite gamma > 0.0: 0.0 stays 0.0, and the power of 1.0 or of a
\*    channel a few ulps below it times 65535 rounds to 65535; a channel
\*    between is kept by the default gamma 1.0 (another power of it has no
\*    value here).
Rgb16Channel(value, xyz_to_channel, gamma) ==
    LET linear == LinearChannel(value, xyz_to_channel)
    IN  IF IsNaN(gamma) \/ gamma = INFINITY
        THEN IF linear[1] > linear[2]
                \/ (linear[1] = linear[2] /\ CorrectedIsOne(value, xyz_to_channel))
             THEN 65535 ELSE 0
        ELSE IF gamma <= 0 THEN 65535
        ELSE IF linear[1] <= 0 THEN 0
        ELSE IF linear[1] >= linear[2] THEN 65535
        ELSE CHOOSE channel \in {Srgb16(linear)} : gamma = 1

\* image::Rgb<u16>::from(RgbColor::from(value).apply_gamma(gamma))
Rgb16(value, gamma) ==
    <<Rgb16Channel(value, XYZ_TO_RGB[1], gamma),
      Rgb16Channel(value, XYZ_TO_RGB[2], gamma),
      Rgb16Channel(value, XYZ_TO_RGB[3], gamma)>>

\* The fields after `done` are the image and the history of the call: the
\* max_intensity and the scale computed, and the colours handed to RgbColor::from.
ConvertInit ==
    \E output_height \in 0..MaxConvertRows, output_width \in ConvertWidths,
       gamma \in Gammas :
        \E y_indices \in [1..output_height -> 0..(output_height - 1)],
           colors \in [1..output_height -> [1..output_width -> ConvertPixels]] :
            LET rows == [k \in 1..output_height |-> <<y_indices[k], colors[k]>>]
            IN  /\ \A i, j \in 1..output_height : y_indices[i] = y_indices[j] => i = j
                /\ convert = [output_width |-> output_width,
                              output_height |-> output_height,
                              rows |-> rows,
                              gamma |-> gamma,
                              done |-> FALSE,
                              image |-> [p \in (0..(output_width - 1))
                                                  \X (0..(output_height - 1)) |-> None],
                              max_intensity |-> None,
                              scale |-> None,
                              scaled |-> [p \in (0..(output_width - 1))
                                                  \X (0..(output_height - 1)) |-> None]]

\* convert_pixels_to_image(output_width, output_height, rows, gamma)
ConvertPixelsToImage ==
    /\ ~convert.done
    /\ LET max_intensity == MaxIntensity(convert.rows)
           scale == Scale(max_intensity)
           color(p) == LET k == CHOOSE k \in 1..convert.output_height :
                                   ImageRow(k, convert.rows[k]) = p[2]
                       IN  Xyz_mul(convert.rows[k][2][p[1] + 1], scale)
       IN  convert' = [convert EXCEPT
               !.done = TRUE,
               !.max_intensity = max_intensity,
               !.scale = scale,
               !.scaled = [p \in DOMAIN @ |-> color(p)],
               !.image = [p \in DOMAIN @ |-> Rgb16(color(p), convert.gamma)]]
    /\ UNCHANGED NotConvert

ConvertIdle == convert = Idle

(***************************************************************************)
(* tracer.rs: Tracer::trace_refraction and Tracer::trace_diffusion, one    *)
(* call on a hit, an incident ray and the samples of the sequences         *)
(***************************************************************************)
MaxDistance == 2
ScatterSamples == {ZERO, <<1, 4>>, <<1, 2>>}
ScatterMaterials ==
    {Material(None, None, None),
     Material(Reflectance(ONE, None, None), None, None),
     Material(Reflectance(ONE, None, ZERO), None, None),
     Material(Reflectance(ONE, None, <<1, 2>>), None, None),
     Material(Reflectance(<<1, 2>>, None, ONE), None, None),
     Material(None, Vacuum, None),
     Material(None, Glass, None),
     Material(Reflectance(ONE, None, ONE), Glass, None)}

\* The hits tried: on the ray at an integer distance, with a unit normal along
\* an axis and against the ray.
ScatterHits(ray) ==
    {Hit(distance, Ray_at(ray, distance), normal, type_, material) :
        distance \in 1..MaxDistance,
        normal \in {n \in AxisDirections : Vec3_dot(n, ray.direction) <= 0},
        type_ \in {"Enter", "Leave"},
        material \in ScatterMaterials}

\* The lengths and the cosine the code takes a root for are exact in the model.
ExactScatter(ray, hit, diffusion_sample) ==
    /\ IsSquare(Vec3_length_squared(
           Vec3_add(hit.normal, Vec3_sample_unit_vector(diffusion_sample))))
    /\ hit.material.transmittance # None =>
        LET sin_theta_2 == SinTheta2(RefractiveIndex(hit), RefractionCosine(ray, hit))
        IN  \/ TotalInternalReflection(sin_theta_2)
            \/ IsSquare(sin_theta_2[2] * sin_theta_2[2] - sin_theta_2[1] * sin_theta_2[1])

ScatterInit ==
    \E direction \in FirstDirections, effect_sample \in ScatterSamples,
       diffusion_sample \in DiffusionSamples :
        LET ray == [origin |-> <<0, 0, 0>>, direction |-> direction]
        IN  \E hit \in ScatterHits(ray) :
                /\ ExactScatter(ray, hit, diffusion_sample)
                /\ scatter = [ray |-> ray,
                              hit |-> hit,
                              effect_sample |-> effect_sample,
                              diffusion_sample |-> diffusion_sample,
                              effect |-> "",
                              draws |-> 0,
                              result |-> None]

\* Self::trace_refraction(&ray, wavelength, &hit, effect_check_sequence)
ScatterRefraction ==
    /\ scatter.effect = ""
    /\ RefractionAssert(scatter.ray, scatter.hit)
    /\ scatter' = [scatter EXCEPT
            !.effect = "refraction",
            !.draws = trace_refraction_draws(scatter.ray, scatter.hit),
            !.result = trace_refraction(scatter.ray, scatter.hit, scatter.effect_sample)]
    /\ UNCHANGED NotScatter

\* Self::trace_diffusion(&hit, wavelength, effect_check_sequence, diffusion_sequence)
ScatterDiffusion ==
    /\ scatter.effect = ""
    /\ scatter' = [scatter EXCEPT
            !.effect = "diffusion",
            !.draws = IF scatter.hit.material.reflectance = None THEN 0
                      ELSE IF scatter.hit.material.reflectance.diffusion = None THEN 0
                      ELSE 1,
            !.result = trace_diffusion(scatter.hit, scatter.effect_sample,
                                       scatter.diffusion_sample)]
    /\ UNCHANGED NotScatter

ScatterIdle == scatter = Idle

(***************************************************************************)
(* tracer/state.rs                                                         *)
(***************************************************************************)
\* An Emittance and an Attenuation are properties of the wavelength: functions
\* from the wavelengths of the model to fractions.  fastrand::f64() in
\* Spectrum::collapse picks one of the wavelengths.
MaxStateCalls == 4
Wavelengths == {1, 2}
Emittances == {[w \in Wavelengths |-> ONE], [w \in Wavelengths |-> <<w, 1>>]}
Attenuations == {[w \in Wavelengths |-> <<1, 2>>], [w \in Wavelengths |-> <<1, w>>]}

\* A SingleLine at the wavelength with nothing applied.
SingleLine(wavelength, total_radiance, total_attenuation) ==
    [kind |-> "SingleLine", wavelength |-> wavelength,
     total_radiance |-> total_radiance, total_attenuation |-> total_attenuation]

\* SingleLine::apply_emittance and ::apply_attenuation
SingleLine_apply_emittance(line, emittance) ==
    [line EXCEPT !.total_radiance = FracAdd(@, FracMul(line.total_attenuation, emittance))]
SingleLine_apply_attenuation(line, attenuation) ==
    [line EXCEPT !.total_attenuation = FracMul(@, attenuation)]

\* Spectrum::new, ::apply_emittance and ::apply_attenuation
Spectrum_new ==
    [kind |-> "Spectrum", emitters |-> <<>>, attenuators |-> <<>>]
Spectrum_apply_emittance(spectrum, emittance) ==
    [spectrum EXCEPT !.emitters = Append(@, <<Len(spectrum.attenuators), emittance>>)]
Spectrum_apply_attenuation(spectrum, attenuation) ==
    [spectrum EXCEPT !.attenuators = Append(@, attenuation)]

\* Mutant: every attenuator is counted, also those applied after the emitter.
Spectrum_total_attenuation_All(spectrum, wavelength, n_attenuators) ==
    LET RECURSIVE fold(_, _)
        fold(k, attenuation) ==
            IF k > Len(spectrum.attenuators) THEN attenuation
            ELSE fold(k + 1, FracMul(attenuation, spectrum.attenuators[k][wavelength]))
    IN  fold(1, ONE)
\* Spectrum::total_attenuation: the fold over attenuators[0..n_attenuators]
Spectrum_total_attenuation(spectrum, wavelength, n_attenuators) ==
    LET RECURSIVE fold(_, _)
        fold(k, attenuation) ==
            IF k > n_attenuators THEN attenuation
            ELSE fold(k + 1, FracMul(attenuation, spectrum.attenuators[k][wavelength]))
    IN  fold(1, ONE)

\* Spectrum::radiance_at: the sum over the emitters
Spectrum_radiance_at(spectrum, wavelength) ==
    LET RECURSIVE sum(_, _)
        sum(k, total) ==
            IF k > Len(spectrum.emitters) THEN total
            ELSE sum(k + 1,
                     FracAdd(total,
                             FracMul(spectrum.emitters[k][2][wavelength],
                                     Spectrum_total_attenuation(
                                         spectrum, wavelength, spectrum.emitters[k][1]))))
    IN  sum(1, ZERO)

\* Spectrum::collapse with the wavelength the generator gave
Spectrum_collapse(spectrum, wavelength) ==
    SingleLine(wavelength,
               Spectrum_radiance_at(spectrum, wavelength),
               Spectrum_total_attenuation(spectrum, wavelength, Len(spectrum.attenuators)))

\* TraceState::collapse, ::apply_emittance and ::apply_attenuation
TraceState_collapse(state, wavelength) ==
    IF state.kind = "SingleLine" THEN state ELSE Spectrum_collapse(state, wavelength)
TraceState_apply_emittance(state, emittance) ==
    IF state.kind = "SingleLine"
    THEN SingleLine_apply_emittance(state, emittance[state.wavelength])
    ELSE Spectrum_apply_emittance(state, emittance)
TraceState_apply_attenuation(state, attenuation) ==
    IF state.kind = "SingleLine"
    THEN SingleLine_apply_attenuation(state, attenuation[state.wavelength])
    ELSE Spectrum_apply_attenuation(state, attenuation)

\* The state is a fresh Spectrum; beside it run the lines: for each wavelength
\* a SingleLine that is at that wavelength from the start and gets the same
\* calls.  `collapses` counts the calls of collapse.
StateInit ==
    trace_state = [state |-> Spectrum_new,
                   lines |-> [w \in Wavelengths |-> SingleLine(w, ZERO, ONE)],
                   calls |-> 0,
                   collapses |-> 0]

StateApplyEmittance ==
    /\ trace_state.calls < MaxStateCalls
    /\ \E emittance \in Emittances :
        trace_state' = [trace_state EXCEPT
            !.state = TraceState_apply_emittance(@, emittance),
            !.lines = [w \in Wavelengths |-> SingleLine_apply_emittance(@[w], emittance[w])],
            !.calls = @ + 1]
    /\ UNCHANGED NotState

StateApplyAttenuation ==
    /\ trace_state.calls < MaxStateCalls
    /\ \E attenuation \in Attenuations :
        trace_state' = [trace_state EXCEPT
            !.state = TraceState_apply_attenuation(@, attenuation),
            !.lines = [w \in Wavelengths |->
                         SingleLine_apply_attenuation(@[w], attenuation[w])],
            !.calls = @ + 1]
    /\ UNCHANGED NotState

StateCollapse ==
    /\ trace_state.calls < MaxStateCalls
    /\ \E wavelength \in Wavelengths :
        trace_state' = [trace_state EXCEPT
            !.state = TraceState_collapse(@, wavelength),
            !.calls = @ + 1,
            !.collapses = @ + 1]
    /\ UNCHANGED NotState

StateIdle == trace_state = Idle

(***************************************************************************)
(* Specifications                                                          *)
(***************************************************************************)
InitSeq == SeqInit /\ PixelIdle /\ AabbIdle /\ SurfaceIdle /\ BvhIdle /\ TraceIdle /\ RenderIdle /\ BitorIdle /\ ConvertIdle /\ ScatterIdle /\ StateIdle
NextSeq == VanDerCorputNext
SpecSeq == InitSeq /\ [][NextSeq]_vars

InitPixel == PixelInit /\ SeqIdle /\ AabbIdle /\ SurfaceIdle /\ BvhIdle /\ TraceIdle /\ RenderIdle /\ BitorIdle /\ ConvertIdle /\ ScatterIdle /\ StateIdle
NextPixel == RenderSample
SpecPixel == InitPixel /\ [][NextPixel]_vars

InitAabb == AabbInit /\ SeqIdle /\ PixelIdle /\ SurfaceIdle /\ BvhIdle /\ TraceIdle /\ RenderIdle /\ BitorIdle /\ ConvertIdle /\ ScatterIdle /\ StateIdle
NextAabb == AabbHit
SpecAabb == InitAabb /\ [][NextAabb]_vars

InitSurface == SurfaceInit /\ SeqIdle /\ PixelIdle /\ AabbIdle /\ BvhIdle /\ TraceIdle /\ RenderIdle /\ BitorIdle /\ ConvertIdle /\ ScatterIdle /\ StateIdle
NextSurface == SurfaceHit
SpecSurface == InitSurface /\ [][NextSurface]_vars

InitBvh == BvhInit /\ SeqIdle /\ PixelIdle /\ AabbIdle /\ SurfaceIdle /\ TraceIdle /\ RenderIdle /\ BitorIdle /\ ConvertIdle /\ ScatterIdle /\ StateIdle
NextBvh == BvhNew \/ BvhHit
SpecBvh == InitBvh /\ [][NextBvh]_vars

InitBvhNew ==
    BvhBuildInit /\ SeqIdle /\ PixelIdle /\ AabbIdle /\ SurfaceIdle /\ TraceIdle /\ RenderIdle /\ BitorIdle /\ ConvertIdle /\ ScatterIdle /\ StateIdle
NextBvhNew == BvhNew
SpecBvhNew == InitBvhNew /\ [][NextBvhNew]_vars

InitTrace == TraceInit /\ SeqIdle /\ PixelIdle /\ AabbIdle /\ SurfaceIdle /\ BvhIdle /\ RenderIdle /\ BitorIdle /\ ConvertIdle /\ ScatterIdle /\ StateIdle
NextTrace == TraceBounce
SpecTrace == InitTrace /\ [][NextTrace]_vars

\* The pool keeps running its workers and conversion follows the render.
InitRender ==
    RenderInit /\ SeqIdle /\ PixelIdle /\ AabbIdle /\ SurfaceIdle /\ BvhIdle /\ TraceIdle /\ BitorIdle /\ ConvertIdle /\ ScatterIdle /\ StateIdle
NextRender ==
    \/ RenderShuffle
    \/ \E w \in Workers(render) : WorkerTake(w)
    \/ \E w \in Workers(render) : WorkerPixel(w)
    \/ \E w \in Workers(render) : WorkerLock(w)
    \/ \E w \in Workers(render) : WorkerRead(w)
    \/ \E w \in Workers(render) : WorkerWrite(w)
    \/ \E w \in Workers(render) : WorkerUnlock(w)
    \/ \E w \in Workers(render) : WorkerReturn(w)
    \/ RenderFinish
    \/ RenderUnwind
    \/ ConvertRow
SpecRender == InitRender /\ [][NextRender]_vars /\ WF_vars(NextRender)

InitBitor ==
    BitorInit /\ SeqIdle /\ PixelIdle /\ AabbIdle /\ SurfaceIdle /\ BvhIdle /\ TraceIdle
        /\ RenderIdle /\ ConvertIdle /\ ScatterIdle /\ StateIdle
NextBitor == BitorApply
SpecBitor == InitBitor /\ [][NextBitor]_vars

InitConvert ==
    ConvertInit /\ SeqIdle /\ PixelIdle /\ AabbIdle /\ SurfaceIdle /\ BvhIdle /\ TraceIdle
        /\ RenderIdle /\ BitorIdle /\ ScatterIdle /\ StateIdle
NextConvert == ConvertPixelsToImage
SpecConvert == InitConvert /\ [][NextConvert]_vars

InitScatter ==
    ScatterInit /\ SeqIdle /\ PixelIdle /\ AabbIdle /\ SurfaceIdle /\ BvhIdle /\ TraceIdle
        /\ RenderIdle /\ BitorIdle /\ ConvertIdle /\ StateIdle
NextScatter ==
    \/ ScatterRefraction
    \/ ScatterDiffusion
SpecScatter == InitScatter /\ [][NextScatter]_vars

InitState ==
    StateInit /\ SeqIdle /\ PixelIdle /\ AabbIdle /\ SurfaceIdle /\ BvhIdle /\ TraceIdle
        /\ RenderIdle /\ BitorIdle /\ ConvertIdle /\ ScatterIdle
NextState ==
    \/ StateApplyEmittance
    \/ StateApplyAttenuation
    \/ StateCollapse
SpecState == InitState /\ [][NextState]_vars

InitRenderTwice ==
    RenderOnceInit /\ SeqIdle /\ PixelIdle /\ AabbIdle /\ SurfaceIdle /\ BvhIdle /\ TraceIdle /\ BitorIdle /\ ConvertIdle /\ ScatterIdle /\ StateIdle
NextRenderTwice == NextRender \/ RenderAgain
SpecRenderTwice == InitRenderTwice /\ [][NextRenderTwice]_vars /\ WF_vars(NextRenderTwice)

(***************************************************************************)
(* Claims about the sequences and the wavelength sampling                  *)
(***************************************************************************)
RECURSIVE ReverseDigits(_, _, _)
\* The digits of k in base b, read backwards, as a number.
ReverseDigits(b, k, acc) ==
    IF k = 0 THEN acc ELSE ReverseDigits(b, k \div b, (acc * b) + (k % b))

RECURSIVE DigitsPower(_, _)
\* b to the number of digits of k in base b.
DigitsPower(b, k) == IF k = 0 THEN 1 ELSE b * DigitsPower(b, k \div b)

RadicalInverse(b, k) == <<ReverseDigits(b, k, 0), DigitsPower(b, k)>>

RECURSIVE IsPowerOf(_, _)
IsPowerOf(b, d) == d = 1 \/ (d % b = 0 /\ IsPowerOf(b, d \div b))

SameFraction(p, q) == p[1] * q[2] = q[1] * p[2]

\* 0.5, 0.25, 0.75, 0.125, 0.625, 0.375, 0.875, 0.0625
CorputBase2 ==
    <<(<<5, 10>>), (<<25, 100>>), (<<75, 100>>), (<<125, 1000>>),
      (<<625, 1000>>), (<<375, 1000>>), (<<875, 1000>>), (<<625, 10000>>)>>

\* C3: with zero offset the k-th call of VanDerCorput::next returns the base-b
\* radical inverse of k, n / d with d a power of b and 0 < n < d after every
\* call; for base 2 the first eight values are 0.5, 0.25, 0.75, 0.125, 0.625,
\* 0.375, 0.875, 0.0625.
C3_RadicalInverse ==
    /\ \A k \in 1..Len(outputs) :
        /\ outputs[k] = RadicalInverse(sequence.base, k)
        /\ (sequence.base = 2 /\ k <= 8) => SameFraction(outputs[k], CorputBase2[k])
    /\ Len(outputs) >= 1 =>
        /\ 0 < sequence.n /\ sequence.n < sequence.d
        /\ IsPowerOf(sequence.base, sequence.d)

C3_Witness ==
    \/ sequence.base = 2 /\ Len(outputs) = 8 /\ outputs[8] = <<1, 16>>
    \/ sequence.base = 3 /\ Len(outputs) = 9 /\ outputs[9] = <<1, 27>>

\* C6: every wavelength render_pixel passes to XyzColor::from_wavelength lies in
\* [360 nm, 830 nm): the table index is in 0..469, the assertion nanos < 470
\* holds and index + 1 stays inside the table, for any number of samples.
C6_WavelengthInTable ==
    pixel.i > 0 =>
        /\ pixel.asserted
        /\ MIN_WAVELENGTH * pixel.wavelength[2] <= pixel.wavelength[1]
        /\ pixel.wavelength[1] < MAX_WAVELENGTH * pixel.wavelength[2]
        /\ TableIndex(pixel.wavelength) \in 0..469
        /\ TableIndex(pixel.wavelength) + 1 < TableLen

C6_Witness ==
    /\ pixel.i = 4
    /\ pixel.n_samples_per_pixel = 8
    /\ TableIndex(pixel.wavelength) = 58

(***************************************************************************)
(* Claims about the AABB slab test                                         *)
(***************************************************************************)
InBox(aabb, p) ==
    \A i \in Axes : aabb.min_point[i] <= p[i] /\ p[i] <= aabb.max_point[i]
StrictlyInBox(aabb, p) ==
    \A i \in Axes : aabb.min_point[i] < p[i] /\ p[i] < aabb.max_point[i]

\* The distances at which the ray is inside the closed box.  Box corners and
\* origins are integers and the direction components are -1, 0 or 1, so the
\* ends of this interval are integers within Times.
Times == -(2 * AabbExtent + 2)..(2 * AabbExtent + 2)
RayTimes(aabb, ray) == {t \in Times : InBox(aabb, Ray_at(ray, t))}
SetMin(S) == CHOOSE x \in S : \A y \in S : x <= y
SetMax(S) == CHOOSE x \in S : \A y \in S : x >= y
GeoEnter(aabb, ray, range) == fmax(SetMin(RayTimes(aabb, ray)), range[1])
GeoExit(aabb, ray, range) == fmin(SetMax(RayTimes(aabb, ray)), range[2])
\* The result the slab geometry asks for.
GeoHit(aabb, ray, range) ==
    IF RayTimes(aabb, ray) = {} THEN None
    ELSE IF GeoExit(aabb, ray, range) < 0 THEN None
    ELSE IF GeoEnter(aabb, ray, range) > GeoExit(aabb, ray, range) THEN None
    ELSE <<GeoEnter(aabb, ray, range), GeoExit(aabb, ray, range)>>

\* The ray is parallel to axis i and outside that axis' slab.
ParallelOutside(aabb, ray) ==
    \E i \in Axes :
        /\ ray.direction[i] = 0
        /\ (ray.origin[i] < aabb.min_point[i] \/ ray.origin[i] > aabb.max_point[i])

\* The ray runs in the plane of a face of the box.
InFacePlane(aabb, ray) ==
    \E i \in Axes :
        /\ ray.direction[i] = 0
        /\ aabb.min_point[i] # aabb.max_point[i]
        /\ ray.origin[i] \in {aabb.min_point[i], aabb.max_point[i]}

\* The returned pair lies in the range and the ray is inside the box all along it.
HitIsInside ==
    slab.result # None =>
        /\ slab.range[1] <= slab.result[1]
        /\ slab.result[1] <= slab.result[2]
        /\ slab.result[2] <= slab.range[2]
        /\ \A t \in slab.result[1]..slab.result[2] : InBox(slab.aabb, Ray_at(slab.ray, t))

\* C4: for a finite AABB, Aabb::hit returns None when the box is behind the
\* origin or the slabs do not overlap, otherwise (t_enter, t_exit) within the
\* range with the ray inside the box all along; a ray starting inside the box
\* always hits; a ray parallel to an axis and outside its slab never hits.
\* Stated for the range 0..INFINITY, which holds the whole forward ray.
C4_SlabTest ==
    (slab.done /\ slab.aabb \in FiniteBoxes /\ slab.range = <<0, INFINITY>>) =>
        /\ HitIsInside
        /\ slab.result = GeoHit(slab.aabb, slab.ray, slab.range)
        /\ InBox(slab.aabb, slab.ray.origin) => slab.result # None
        /\ ParallelOutside(slab.aabb, slab.ray) => slab.result = None

\* The failing input of C4: a ray that starts on a face of the box and runs in
\* the plane of that face; (max - o) / d is 0 / 0 on that axis.
C4_FacePlaneMiss ==
    /\ slab.done
    /\ slab.aabb = Box(<<-1, -1, -1>>, <<1, 1, 1>>)
    /\ slab.ray = [origin |-> <<1, 0, 0>>, direction |-> <<0, 0, 1>>]
    /\ slab.range = <<0, INFINITY>>
    /\ slab.result = None

\* What Aabb::hit does satisfy for a finite box, every ray and every range: a
\* returned pair is in the range with the ray inside the box all along it, a ray
\* in the plane of a face never hits, every other ray gets the result the slab
\* geometry asks for, and a ray parallel to an axis outside its slab never hits.
Aabb_hit_Holds ==
    (slab.done /\ slab.aabb \in FiniteBoxes) =>
        /\ HitIsInside
        /\ ~InFacePlane(slab.aabb, slab.ray) =>
                slab.result = GeoHit(slab.aabb, slab.ray, slab.range)
        /\ InFacePlane(slab.aabb, slab.ray) => slab.result = None
        /\ ParallelOutside(slab.aabb, slab.ray) => slab.result = None

\* C5: for the unbounded AABB (min and max points infinite) Aabb::hit returns
\* the input distance range unchanged, for every ray and every range.
C5_UnboundedKeepsRange ==
    (slab.done /\ slab.aabb = Unbounded) =>
        slab.result = <<slab.range[1], slab.range[2]>>

C5_Witness ==
    /\ slab.done
    /\ slab.aabb = Unbounded
    /\ slab.range = <<-3, -1>>
    /\ slab.result = <<-3, -1>>

(***************************************************************************)
(* Claims about the hits of the surfaces                                   *)
(***************************************************************************)
\* let cosine_theta_1 = (-hit.normal.dot(ray.direction)).min(1.0)
CosineTheta1(hit, ray) == fmin(fneg(Vec3_dot(hit.normal, ray.direction)), 1)

\* The hit has its normal against the ray, and the assertion of trace_refraction holds.
NormalAgainstRay(hit, ray) ==
    /\ fle(Vec3_dot(hit.normal, ray.direction), 0)
    /\ fle(0, CosineTheta1(hit, ray))

\* C2: every Hit returned by Sphere::hit, Triangle::hit or UniformFog::hit has
\* normal . ray.direction <= 0 (a sphere keeps the outward normal on Enter and
\* negates it on Leave), so cos theta_1 = -normal . direction is never negative
\* and the assertion cosine_theta_1 >= 0.0 of trace_refraction never fails.
C2_NormalAgainstRay ==
    (surf.done /\ surf.result # None) =>
        /\ NormalAgainstRay(surf.result, surf.ray)
        /\ surf.surface.kind = "Sphere" =>
               LET outward_normal ==
                       Vec3_div_scalar(Vec3_sub(surf.result.location, surf.surface.center),
                                       surf.surface.radius)
               IN  surf.result.normal = IF surf.result.type_ = "Enter"
                                        THEN outward_normal
                                        ELSE Vec3_neg(outward_normal)

\* The failing input of C2: a sphere of radius 0 hit through its centre; the
\* outward normal is (location - center) / 0.0 = NaN on every axis.
C2_PointSphereHit ==
    /\ surf.done
    /\ surf.surface = PointSphere
    /\ surf.ray = [origin |-> <<0, 0, -2>>, direction |-> <<0, 0, 1>>]
    /\ surf.range = <<0, INFINITY>>
    /\ surf.result # None
    /\ surf.result.distance = 2
    /\ surf.result.normal = <<NaN, NaN, NaN>>

\* What the hits do satisfy: the claim holds of every hit of a sphere of
\* radius other than 0, of a triangle and of a fog, and of every hit at all the
\* assertion of trace_refraction holds (f64::min drops the NaN).
Hit_normal_Holds ==
    (surf.done /\ surf.result # None) =>
        /\ surf.surface # PointSphere => NormalAgainstRay(surf.result, surf.ray)
        /\ fle(0, CosineTheta1(surf.result, surf.ray))

(***************************************************************************)
(* Claims about the bounding volume hierarchy                              *)
(***************************************************************************)
\* The distances at which the ray hits a surface of the scene.
HitDistances(surfaces, by_ray, distance_range) ==
    {Surface_hit(surfaces[i], by_ray, distance_range, 0).distance :
        i \in {j \in 1..Len(surfaces) :
                  Surface_hit(surfaces[j], by_ray, distance_range, 0) # None}}

\* C1: for every set of deterministic surfaces, every leaf cap, every ray and
\* every distance range, Bvh::hit on the tree built by Bvh::new returns a hit
\* at the distance of the nearest hit of a linear scan over all the surfaces,
\* and None exactly when the linear scan finds no hit.
C1_BvhIsLinearScan ==
    bvh.phase = "queried" =>
        LET distances == HitDistances(bvh.surfaces, bvh.ray, bvh.range)
        IN  IF distances = {} THEN bvh.result = None
            ELSE /\ bvh.result # None
                 /\ bvh.result.distance = SetMin(distances)

\* The failing input of C1: two spheres in two leaves, and a ray that touches
\* the first sphere in the plane of a face of the box of the root.
C1_TangentMiss ==
    /\ bvh.phase = "queried"
    /\ bvh.max_leaf_size = 1
    /\ bvh.surfaces = <<Sphere(<<-4, 0, 0>>, 1), UnitSphere>>
    /\ bvh.ray = [origin |-> <<1, 0, -2>>, direction |-> <<0, 0, 1>>]
    /\ bvh.range = <<0, INFINITY>>
    /\ Sphere_hit(UnitSphere, bvh.ray, bvh.range).distance = 2
    /\ bvh.result = None

\* What Bvh::hit does satisfy: a hit it returns is a hit of the linear scan, no
\* nearer than the nearest; and when the ray is in the plane of no face of the
\* box of a node, the result is that of the linear scan.
Bvh_hit_Holds ==
    bvh.phase = "queried" =>
        LET distances == HitDistances(bvh.surfaces, bvh.ray, bvh.range)
            grazes == \E i \in 1..Len(bvh.nodes) :
                          /\ bvh.nodes[i].kind = "Node"
                          /\ InFacePlane(bvh.nodes[i].aabb, bvh.ray)
        IN  /\ bvh.result # None => bvh.result.distance \in distances
            /\ ~grazes => IF distances = {} THEN bvh.result = None
                          ELSE /\ bvh.result # None
                               /\ bvh.result.distance = SetMin(distances)

(***************************************************************************)
(* Claims about the bounce loop                                            *)
(***************************************************************************)
\* C7: for every hit, every material and every value of the sampled sequences
\* the scattered ray of a bounce has a finite direction, so the assertion
\* scattered_ray.direction.is_finite() of trace_ray never fails.
C7_ScatteredIsFinite ==
    /\ trace.scattered # None => Vec3_is_finite(trace.scattered.direction)
    /\ trace.phase # "panicked"

\* The failing input of C7: a diffuse surface hit from above (normal (0, 0, 1))
\* and the sample (0, 0) of the diffusion sequence, whose unit vector is
\* (0, 0, -1): the sum is the zero vector and Ray::new divides it by its length.
C7_ZeroDirection ==
    /\ trace.phase = "panicked"
    /\ trace.ray.direction = <<0, 0, -1>>
    /\ trace.scattered # None
    /\ trace.scattered.direction = <<NaN, NaN, NaN>>

\* What the bounce does satisfy: the ray the loop goes on with is finite and of
\* length 1, and the assertion on the cosine never fails.
Scatter_Holds ==
    /\ trace.phase # "panicked" =>
           /\ Vec3_is_finite(trace.ray.direction)
           /\ Vec3_length_squared(trace.ray.direction) = 1
    /\ trace.phase = "panicked" =>
           (trace.scattered # None /\ ~Vec3_is_finite(trace.scattered.direction))

(***************************************************************************)
(* Claims about the rows of Tracer::trace and the image                    *)
(***************************************************************************)
Returned == render.phase \in {"convert", "done"}
EntriesOf(y) == {k \in 1..render.output_height : render.rows[k][1] = y}
Sum(f, S) ==
    LET RECURSIVE sum(_)
        sum(T) == IF T = {} THEN 0
                  ELSE LET t == CHOOSE t \in T : TRUE IN f[t] + sum(T \ {t})
    IN  sum(S)

\* C8: Tracer::trace returns exactly one (y, row) entry for every row index y
\* of 0..H-1, every row has exactly W pixels and was rendered by one worker,
\* no pixel of the image is written twice, and once the image is converted
\* every pixel (x, y) was written exactly once with the pixel x of the entry
\* tagged y, the one rendered for (x, y), wherever the shuffle and the
\* interleaving of the workers put that entry.
C8_OneEntryPerRow ==
    /\ Returned =>
        /\ \A y \in Rows(render) : Cardinality(EntriesOf(y)) = 1
        /\ \A k \in 1..render.output_height :
            /\ Len(render.rows[k][2]) = render.output_width
            /\ Cardinality(render.rendered_by[render.rows[k][1]]) = 1
    /\ \A p \in DOMAIN render.writes : render.writes[p] <= 1
    /\ render.phase = "done" =>
        \A p \in DOMAIN render.image :
            /\ render.writes[p] = 1
            /\ \E k \in EntriesOf(p[2]) :
                render.image[p].color = render.rows[k][2][p[1] + 1]
            /\ render.image[p].color.x = p[1]
            /\ render.image[p].color.y = p[2]

\* The image of two rows is complete, the rows were returned out of order and
\* each worker rendered one of them.
C8_Witness ==
    /\ render.phase = "done"
    /\ render.output_height = 2
    /\ render.output_width = 2
    /\ render.y_indices = <<1, 0>>
    /\ \E y1, y2 \in Rows(render) : render.rendered_by[y1] # render.rendered_by[y2]

C9_Safety ==
    /\ render.progress.position = Sum(render.incremented, Rows(render))
    /\ \A y \in Rows(render) :
        /\ render.incremented[y] <= 1
        /\ render.incremented[y] = 1 =>
            \/ \E k \in 1..render.output_height :
                /\ render.rows[k] # None
                /\ render.rows[k][1] = y
                /\ Len(render.rows[k][2]) = render.output_width
            \/ \E w \in Workers(render) :
                /\ render.workers[w].pc \in {"written", "unlocked"}
                /\ render.workers[w].y = y
                /\ Len(render.workers[w].row) = render.output_width
    /\ render.progress.finished <= 1
    /\ render.progress.finished = 1 =>
        /\ render.progress.position = render.output_height
        /\ \A y \in Rows(render) : render.incremented[y] = 1
    /\ Returned => render.progress.finished = 1
    /\ \A w \in Workers(render) :
        render.workers[w].pc \in {"locked", "read", "written"} =>
            render.progress.holder = w

\* C9: the position of the progress bar is incremented exactly once for every
\* row, after all the pixels of the row are rendered and while the worker
\* holds the mutex, so the position always is the number of rows incremented;
\* finish() is called exactly once, after all H increments, and it is called
\* in every run.
C9_ProgressCountsRows == []C9_Safety /\ <>(render.progress.finished = 1)

\* The failing run of C9: render_pixel panicked on a pixel of one row (the
\* failed assertion of C7) after the other row was counted; trace has unwound,
\* the position is 1 of 2, one row was never counted and finish() was not
\* called.
C9_Unwound ==
    /\ render.phase = "panicked"
    /\ render.output_height = 2
    /\ render.progress.position = 1
    /\ render.progress.finished = 0
    /\ \E y \in Rows(render) : render.incremented[y] = 0

\* What the progress bar does satisfy: the position always is the number of
\* rows counted, no row is counted twice or before its pixels are rendered,
\* finish() follows all H increments, and a run ends with finish() or with the
\* panic of render_pixel resumed in trace.
C9_Holds == []C9_Safety /\ <>(render.progress.finished = 1 \/ render.phase = "panicked")

\* One worker has incremented the position for its row and still holds the
\* mutex, the other has rendered its row and waits for the mutex.
C9_Witness ==
    /\ render.output_height = 2
    /\ render.n_threads = 2
    /\ render.progress.position = 1
    /\ \E w1, w2 \in Workers(render) :
        /\ render.workers[w1].pc = "written"
        /\ render.workers[w2].pc = "row"
        /\ Len(render.workers[w2].row) = render.output_width
        /\ render.incremented[render.workers[w2].y] = 0

\* C10: the same scene rendered twice on one thread gives the same image.
C10_SameImageTwice ==
    (render.run = 2 /\ render.phase = "done") => render.image = render.previous

\* The second image of the same one-row scene is complete and differs from the
\* first in the offset of the pixel, though the row order is the same.
C10_Witness ==
    /\ render.run = 2
    /\ render.phase = "done"
    /\ render.output_height = 1
    /\ render.output_width = 1
    /\ render.image[<<0, 0>>].color.offset # render.previous[<<0, 0>>].color.offset

(***************************************************************************)
(* Claims about the tree Bvh::new builds                                   *)
(***************************************************************************)
NodeLen(node) == node.end - node.start
IsBuilt == bvh.phase = "built"
Splits == {i \in 1..Len(bvh.nodes) : bvh.nodes[i].kind = "Node"}

RECURSIVE Depth(_, _)
\* The number of nodes on the longest path from the node i down to a leaf.
Depth(nodes, i) ==
    IF nodes[i].kind = "Node"
    THEN LET l == Depth(nodes, nodes[i].left)
             r == Depth(nodes, nodes[i].right)
         IN  1 + (IF l < r THEN r ELSE l)
    ELSE 1

RECURSIVE CeilLog2(_, _)
\* The least k with l * 2^k >= n, that is the ceiling of log2(n / l) for n >= l.
CeilLog2(n, l) == IF l >= n THEN 0 ELSE 1 + CeilLog2(n, 2 * l)

\* C11: the tree Bvh::new returns for N >= 1 surfaces and the leaf cap L has
\* at most ceil(log2(N / L)) + 1 levels.
C11_DepthIsLogarithmic ==
    (IsBuilt /\ Len(bvh.surfaces) >= 1) =>
        Depth(bvh.nodes, 1) <= CeilLog2(Len(bvh.surfaces), bvh.max_leaf_size) + 1

\* Four spheres at x = 0, 2, 6, 14 and the cap 1: the centre of the union
\* leaves one sphere on the right three times, the tree has four levels.
C11_ChainOfFour ==
    /\ IsBuilt
    /\ bvh.max_leaf_size = 1
    /\ bvh.given = <<Sphere(<<14, 0, 0>>, 1), UnitSphere, Sphere(<<6, 0, 0>>, 1),
                     Sphere(<<2, 0, 0>>, 1)>>
    /\ Depth(bvh.nodes, 1) = 4
    /\ CeilLog2(4, 1) + 1 = 3

Count(seq, x) == Cardinality({i \in 1..Len(seq) : seq[i] = x})
SameMultiset(p, q) ==
    /\ Len(p) = Len(q)
    /\ \A i \in 1..Len(p) : Count(p, p[i]) = Count(q, p[i])

RECURSIVE LeavesOf(_, _)
\* The leaves under the node i, read left to right.
LeavesOf(nodes, i) ==
    IF nodes[i].kind = "Node"
    THEN LeavesOf(nodes, nodes[i].left) \o LeavesOf(nodes, nodes[i].right)
    ELSE <<nodes[i]>>

\* C12: when Bvh::new has returned, the slice holds the surfaces it was given
\* (as a multiset); the leaves read left to right are Leaf nodes over non-empty
\* sub-slices of at most max_leaf_size surfaces, each starting where the one
\* before ends, the first at the start and the last at the end of the slice;
\* an empty slice gives Empty alone and a slice of at most max_leaf_size
\* surfaces a single Leaf.
C12_LeavesPartitionSlice ==
    IsBuilt =>
        LET n == Len(bvh.surfaces)
            leaves == LeavesOf(bvh.nodes, 1)
        IN  /\ SameMultiset(bvh.surfaces, bvh.given)
            /\ n = 0 => (Len(bvh.nodes) = 1 /\ bvh.nodes[1].kind = "Empty")
            /\ (1 <= n /\ n <= bvh.max_leaf_size) =>
                (Len(bvh.nodes) = 1 /\ bvh.nodes[1].kind = "Leaf"
                    /\ bvh.nodes[1].start = 1 /\ bvh.nodes[1].end = n + 1)
            /\ n >= 1 =>
                /\ \A k \in 1..Len(leaves) :
                    /\ leaves[k].kind = "Leaf"
                    /\ 1 <= NodeLen(leaves[k])
                    /\ NodeLen(leaves[k]) <= bvh.max_leaf_size
                /\ leaves[1].start = 1
                /\ leaves[Len(leaves)].end = n + 1
                /\ \A k \in 1..(Len(leaves) - 1) : leaves[k + 1].start = leaves[k].end

\* The tree of four surfaces is built with leaves of one and of two surfaces,
\* and the slice is no longer in the order it was given in.
C12_Witness ==
    /\ IsBuilt
    /\ Len(bvh.surfaces) = 4
    /\ bvh.max_leaf_size = 2
    /\ bvh.surfaces # bvh.given
    /\ \E i, j \in 1..Len(bvh.nodes) :
        /\ bvh.nodes[i].kind = "Leaf" /\ NodeLen(bvh.nodes[i]) = 1
        /\ bvh.nodes[j].kind = "Leaf" /\ NodeLen(bvh.nodes[j]) = 2

\* C17: a node of N > max_leaf_size surfaces gives floor(N / 2) surfaces to
\* its left child and ceil(N / 2) to its right child, and neither is empty.
C17_MedianSplit ==
    \A i \in Splits :
        LET node == bvh.nodes[i]
            n == NodeLen(node)
        IN  /\ NodeLen(bvh.nodes[node.left]) = n \div 2
            /\ NodeLen(bvh.nodes[node.right]) = n - (n \div 2)
            /\ NodeLen(bvh.nodes[node.left]) >= 1
            /\ NodeLen(bvh.nodes[node.right]) >= 1

\* Spheres at x = 0, 2 and 14 with the cap 1: the root gives two surfaces to
\* the left child and one to the right, and the tree is built.
C17_TwoLeftOneRight ==
    /\ IsBuilt
    /\ bvh.max_leaf_size = 1
    /\ bvh.given = <<Sphere(<<14, 0, 0>>, 1), UnitSphere, Sphere(<<2, 0, 0>>, 1)>>
    /\ NodeLen(bvh.nodes[bvh.nodes[1].left]) = 2
    /\ NodeLen(bvh.nodes[bvh.nodes[1].right]) = 1

\* C18: every recursive call of Bvh::new receives strictly fewer surfaces
\* than its caller, so Bvh::new returns.
C18_CallsShrink ==
    /\ bvh.phase # "overflow"
    /\ \A i \in Splits :
        /\ NodeLen(bvh.nodes[bvh.nodes[i].left]) < NodeLen(bvh.nodes[i])
        /\ NodeLen(bvh.nodes[bvh.nodes[i].right]) < NodeLen(bvh.nodes[i])

\* Two spheres with the same centre and the cap 1: the left call gets no
\* surface and the right call gets both again.
C18_SameSliceAgain ==
    /\ bvh.phase = "overflow"
    /\ bvh.max_leaf_size = 1
    /\ bvh.given = <<UnitSphere, Sphere(<<0, 0, 0>>, 3)>>
    /\ NodeLen(bvh.nodes[bvh.nodes[1].left]) = 0
    /\ NodeLen(bvh.nodes[bvh.nodes[1].right]) = 2

\* Likewise with an unbounded fog among the surfaces: the centre of the union
\* is NaN and no key is below it.
BvhNew_FogOverflows ==
    (\E i \in 1..Len(bvh.given) : bvh.given[i].kind = "UniformFog")
        /\ Len(bvh.given) > bvh.max_leaf_size
        => bvh.phase # "built"

\* C19: the axis of the key of a node has the maximal extent of the union box
\* of the node's surfaces.
C19_LongestAxis ==
    \A i \in Splits :
        LET size == Aabb_size(bvh.nodes[i].aabb)
        IN  size[bvh.nodes[i].axis] = Vec3_max_element(size)

\* The union of the spheres at (0, 0, 0) and (2, 2, 0) has the size (4, 4, 2)
\* and the key is z, the shortest axis.
C19_TieTakesZ ==
    /\ bvh.given = <<UnitSphere, Sphere(<<2, 2, 0>>, 1)>>
    /\ bvh.max_leaf_size = 1
    /\ bvh.nodes[1].kind = "Node"
    /\ Aabb_size(bvh.nodes[1].aabb) = <<4, 4, 2>>
    /\ bvh.nodes[1].axis = 3

\* Whenever one axis is strictly the longest, it is the axis of the key.
KeyAxis_Holds ==
    \A i \in Splits :
        LET size == Aabb_size(bvh.nodes[i].aabb)
        IN  (\E a \in 1..3 : \A b \in (1..3) \ {a} : flt(size[b], size[a]))
                => size[bvh.nodes[i].axis] = Vec3_max_element(size)

(***************************************************************************)
(* Claims about the bounce loop of trace_ray                               *)
(***************************************************************************)
FracBelow(p, q) == p[1] * q[2] < q[1] * p[2]

\* C13: trace_ray calls bvh.hit at most n_bounces_left times: while the loop
\* runs every iteration so far made one call and fewer than n_bounces_left
\* were made; and a ray that used up its bounces without a miss returns the
\* emittance added at its Enter hits and nothing of the ambient emittance.
C13_BouncesBounded ==
    /\ trace.queries <= trace.n_bounces_left
    /\ trace.phase = "loop" =>
        (trace.queries = trace.i /\ trace.i < trace.n_bounces_left)
    /\ trace.total_flux_density = FracAdd(trace.emitted, trace.ambient)
    /\ trace.exit = "exhausted" =>
        /\ trace.phase = "returned"
        /\ trace.queries = trace.n_bounces_left
        /\ trace.ambient = ZERO
        /\ trace.total_flux_density = trace.emitted

\* Three bounces were allowed and three hits used them up; an emitting surface
\* was entered on the way.
C13_Witness ==
    /\ trace.exit = "exhausted"
    /\ trace.n_bounces_left = 3
    /\ trace.queries = 3
    /\ trace.emitted # ZERO
    /\ trace.total_flux_density = trace.emitted

\* C14: an iteration that starts with the attenuation below min_attenuation
\* ends the loop at once: bvh.hit is not called, and the flux density, the
\* attenuation and the ray stay as they are.
C14_FloorStopsTheRay ==
    [][(trace.phase = "loop" /\ FracBelow(trace.total_attenuation, trace.min_attenuation)) =>
        /\ trace'.phase = "returned"
        /\ trace'.exit = "floor"
        /\ trace'.queries = trace.queries
        /\ trace'.total_flux_density = trace.total_flux_density
        /\ trace'.emitted = trace.emitted
        /\ trace'.ambient = trace.ambient
        /\ trace'.total_attenuation = trace.total_attenuation
        /\ trace'.ray = trace.ray]_vars

\* The floor is 1/2, two bounces brought the attenuation to 1/4 and the third
\* iteration returned without a call of bvh.hit.
C14_Witness ==
    /\ trace.exit = "floor"
    /\ trace.phase = "returned"
    /\ trace.min_attenuation = <<1, 2>>
    /\ trace.total_attenuation = <<1, 4>>
    /\ trace.n_bounces_left = 3
    /\ trace.queries = 2

\* The results of the three effects for the last bounce, in the order of the code.
Effects ==
    LET b == trace.bounce
    IN  <<trace_refraction(b.ray, b.hit, b.u_refraction),
          trace_diffusion(b.hit, b.u_diffusion, b.diffusion_sample),
          trace_specular_reflection(b.ray, b.hit, b.diffusion_sample)>>
Succeeded == {k \in 1..3 : Effects[k] # None}
First == CHOOSE k \in Succeeded : \A j \in Succeeded : k <= j

\* C20: after a bounce with a hit, the scattered ray and the factor of the
\* attenuation are those of the first of refraction, diffusion and specular
\* reflection that gave a ray; the loop ends with the attenuation unchanged
\* when none did, which happens for materials without reflectance only.
C20_FirstEffectWins ==
    (trace.bounce # None /\ trace.phase # "panicked") =>
        /\ Succeeded # {} =>
            /\ trace.exit \in {"", "exhausted"}
            /\ trace.scattered = Effects[First][1]
            /\ trace.ray = Effects[First][1]
            /\ trace.total_attenuation =
                FracMul(trace.bounce.total_attenuation, Effects[First][2])
        /\ Succeeded = {} =>
            /\ trace.exit = "absorbed"
            /\ trace.phase = "returned"
            /\ trace.total_attenuation = trace.bounce.total_attenuation
            /\ trace.bounce.hit.material.reflectance = None
        /\ trace.bounce.hit.material.reflectance # None => trace.exit # "absorbed"

\* A bounce on a material with diffusion 1/2: the sample 1/2 passed the check
\* of diffusion, specular reflection would have given another ray with another
\* factor, and the ray of diffusion was taken.
C20_Witness ==
    /\ trace.bounce # None
    /\ trace.phase # "panicked"
    /\ Effects[1] = None
    /\ Effects[2] # None
    /\ Effects[3] # None
    /\ Effects[2] # Effects[3]
    /\ trace.ray = Effects[2][1]

(***************************************************************************)
(* Claims about the union of boxes and the scale of the image              *)
(***************************************************************************)
Contains(outer, inner) ==
    \A i \in Axes :
        /\ fle(outer.min_point[i], inner.min_point[i])
        /\ fle(inner.max_point[i], outer.max_point[i])

\* C16: a | b = b | a, (a | b) | c = a | (b | c), and a | b contains a and b:
\* its min point is at most and its max point at least theirs on every axis.
C16_UnionLaws ==
    bitor.done =>
        /\ bitor.a_b = bitor.b_a
        /\ bitor.ab_c = bitor.a_bc
        /\ Contains(bitor.a_b, bitor.a)
        /\ Contains(bitor.a_b, bitor.b)
        /\ Contains(bitor.ab_c, bitor.a)
        /\ Contains(bitor.ab_c, bitor.b)
        /\ Contains(bitor.ab_c, bitor.c)

\* The union of two boxes that overlap in part is neither of them, and the
\* third box, a layer unbounded sideways, widens it further.
C16_Witness ==
    /\ bitor.done
    /\ bitor.a = Box(<<-1, -1, -1>>, <<1, 1, 1>>)
    /\ bitor.b = Box(<<-2, 0, -1>>, <<0, 1, 2>>)
    /\ bitor.c = Layer
    /\ bitor.a_b = Box(<<-2, -1, -1>>, <<1, 1, 2>>)
    /\ bitor.ab_c = Box(<<-INFINITY, -INFINITY, -1>>, <<INFINITY, INFINITY, 2>>)

FracLe(p, q) == p[1] * q[2] <= q[1] * p[2]
FracEq(p, q) == p[1] * q[2] = q[1] * p[2]
Components ==
    {convert.rows[k][2][x][i] :
        k \in 1..convert.output_height, x \in 1..convert.output_width, i \in 1..3}

\* C15: max_intensity is the greatest component of all the pixels, or 1 if
\* that is less than 1 or there is no pixel; scale * max_intensity = 1, so
\* 0 < scale <= 1; every component of the image is at most 1 after scaling;
\* and when all components are below 1 (or there are no rows) the scale is 1
\* and the pixels are put as they are.
C15_ScaleByMaxIntensity ==
    convert.done =>
        /\ \A c \in Components \cup {ONE} : FracLe(c, convert.max_intensity)
        /\ \E c \in Components \cup {ONE} : FracEq(c, convert.max_intensity)
        /\ convert.scale[1] * convert.max_intensity[1]
            = convert.scale[2] * convert.max_intensity[2]
        /\ FracBelow(ZERO, convert.scale)
        /\ FracLe(convert.scale, ONE)
        /\ \A p \in DOMAIN convert.scaled : \A i \in 1..3 : FracLe(convert.scaled[p][i], ONE)
        /\ (\A c \in Components : FracBelow(c, ONE)) =>
            /\ FracEq(convert.scale, ONE)
            /\ \A p \in DOMAIN convert.scaled :
                \E k \in 1..convert.output_height :
                    /\ convert.rows[k][1] = p[2]
                    /\ \A i \in 1..3 :
                        FracEq(convert.scaled[p][i], convert.rows[k][2][p[1] + 1][i])

\* Two rows given out of order and the default gamma; the greatest component
\* is 128: the scale is 1/128, the pixel (32, 128, 16) of row 0 is converted as
\* (1/4, 1, 1/8) and put as a saturated green, and the green of intensity 1 of
\* row 1 is converted as (0, 1/128, 0) and put as a dark green.
C15_Witness ==
    /\ convert.done
    /\ convert.gamma = 1
    /\ convert.output_height = 2
    /\ convert.output_width = 1
    /\ convert.rows[1] = <<1, <<<<ZERO, ONE, ZERO>>>>>>
    /\ convert.rows[2] = <<0, <<<<<<32, 1>>, <<128, 1>>, <<16, 1>>>>>>>>
    /\ convert.max_intensity = <<128, 1>>
    /\ convert.scale = <<1, 128>>
    /\ convert.scaled[<<0, 0>>] = <<<<1, 4>>, ONE, <<1, 8>>>>
    /\ convert.image[<<0, 0>>] = <<0, 65535, 0>>
    /\ convert.scaled[<<0, 1>>] = <<ZERO, <<1, 128>>, ZERO>>
    /\ convert.image[<<0, 1>>] = <<0, 8296, 0>>

\* All components are below 1 and the image is not scaled: with the default
\* gamma the dim red is put as it is converted to sRGB.
C15_Unscaled ==
    /\ convert.done
    /\ convert.gamma = 1
    /\ convert.output_height = 1
    /\ convert.rows[1][2][1] = <<<<1, 512>>, ZERO, ZERO>>
    /\ convert.scale = ONE
    /\ convert.scaled[<<0, 0>>] = <<<<1, 512>>, ZERO, ZERO>>
    /\ convert.image[<<0, 0>>] = <<4783, 0, 92>>

(***************************************************************************)
(* Claims about the radiance a ray gathers                                 *)
(***************************************************************************)
\* C21: when bvh.hit returns no hit the loop adds total_attenuation *
\* scene_emittance to total_flux_density once and ends: the step makes one
\* query, adds no emittance and scatters nothing, the value returned is the
\* radiance before the miss plus that term, and no step follows.
C21_MissAddsAmbientOnce ==
    [][/\ trace'.exit = "miss" =>
            /\ trace.phase = "loop"
            /\ trace'.phase = "returned"
            /\ trace'.queries = trace.queries + 1
            /\ trace'.emitted = trace.emitted
            /\ trace'.scattered = None
            /\ trace'.total_attenuation = trace.total_attenuation
            /\ trace'.total_flux_density =
                FracAdd(trace.total_flux_density,
                        FracMul(trace.total_attenuation, trace.scene_emittance))
       /\ trace.exit = "miss" => trace' = trace]_vars

\* A ray halved by a diffuse bounce misses on its second query: the radiance
\* returned is the single ambient term 1/2.
C21_Witness ==
    /\ trace.exit = "miss"
    /\ trace.queries = 2
    /\ trace.total_attenuation = <<1, 2>>
    /\ trace.emitted = ZERO
    /\ trace.total_flux_density = <<1, 2>>

\* C22: a hit adds total_attenuation * emittance to total_flux_density if and
\* only if its type is Enter and its material has an emittance; the
\* attenuation is the one before the factor of this bounce is applied; a hit
\* of another type adds nothing.
C22_EmittanceOnEnterOnly ==
    [][trace'.bounce # None /\ trace'.queries = trace.queries + 1 =>
        LET hit == trace'.bounce.hit
        IN  trace'.total_flux_density =
                IF hit.type_ = "Enter" /\ hit.material.emittance # None
                THEN FracAdd(trace.total_flux_density,
                             FracMul(trace.total_attenuation, hit.material.emittance))
                ELSE trace.total_flux_density]_vars

\* A ray halved by a diffuse bounce enters an emitting mirror: 1/2 is added.
C22_Witness ==
    /\ trace.queries = 2
    /\ trace.bounce # None
    /\ trace.bounce.hit.type_ = "Enter"
    /\ trace.bounce.hit.material.emittance # None
    /\ trace.bounce.total_attenuation = <<1, 2>>
    /\ trace.total_flux_density = <<1, 2>>

\* A hit of type Leave on an emitting material adds nothing.
C22_LeaveAddsNothing ==
    /\ trace.queries = 1
    /\ trace.bounce # None
    /\ trace.bounce.hit.type_ = "Leave"
    /\ trace.bounce.hit.material.emittance # None
    /\ trace.total_flux_density = ZERO

(***************************************************************************)
(* Claims about the hit of a fog                                           *)
(***************************************************************************)
\* C23: every hit UniformFog::hit returns has the type Refract and the normal
\* -by_ray.direction, so that a fog hit is never one that enters a body.
C23_FogHitRefracts ==
    (surf.done /\ surf.surface.kind = "UniformFog" /\ surf.result # None) =>
        /\ surf.result.type_ = "Refract"
        /\ surf.result.normal = Vec3_neg(surf.ray.direction)

\* A ray along x meets the fog in the box (-1,-1,-1)..(1,1,1) at distance 1
\* and scatters after a free path of 1: the hit has the type Enter.
C23_FogHitEnters ==
    /\ surf.done
    /\ surf.surface = UniformFog(Box(<<-1, -1, -1>>, <<1, 1, 1>>))
    /\ surf.ray = [origin |-> <<-2, 0, 0>>, direction |-> <<1, 0, 0>>]
    /\ surf.range = <<0, INFINITY>>
    /\ surf.result # None
    /\ surf.result.distance = 2
    /\ surf.result.normal = <<-1, 0, 0>>
    /\ surf.result.type_ = "Enter"

(***************************************************************************)
(* Claims about one refraction or diffusion                                *)
(***************************************************************************)
DiffusionTried ==
    /\ scatter.effect = "diffusion"
    /\ scatter.hit.material.reflectance # None
    /\ scatter.hit.material.reflectance.diffusion # None

\* C24: trace_diffusion returns None whenever the sample u of the effect
\* sequence is at or above the probability p of the material and a ray only
\* when u < p, so that p = 0 never diffuses.
C24_FailsAtOrAbove ==
    DiffusionTried =>
        (scatter.result # None
            <=> FracLt(scatter.effect_sample, scatter.hit.material.reflectance.diffusion))

\* The probability is 0 and the sample is 0.0: a diffused ray is returned.
C24_ZeroProbabilityDiffuses ==
    /\ DiffusionTried
    /\ scatter.hit.material.reflectance.diffusion = ZERO
    /\ scatter.effect_sample = ZERO
    /\ scatter.result # None

\* For any sample above the probability the code does return None.
Diffusion_Holds ==
    DiffusionTried =>
        (scatter.result = None
            <=> FracLt(scatter.hit.material.reflectance.diffusion, scatter.effect_sample))

\* The length of hit.normal + sample, before Ray::new normalizes it.
SumLength ==
    Vec3_length(Vec3_add(scatter.hit.normal,
                         Vec3_sample_unit_vector(scatter.diffusion_sample)))

\* C25: the factor of a diffusion is reflectance.attenuation * |normal + s| / 2
\* with |normal + s| the length of the sum before it is normalized.
C25_FactorFollowsLength ==
    (scatter.effect = "diffusion" /\ scatter.result # None) =>
        FracEq(scatter.result[2],
               <<scatter.hit.material.reflectance.attenuation[1] * SumLength,
                 scatter.hit.material.reflectance.attenuation[2] * 2>>)

\* The normal and the sample are both (0,0,-1): the sum has the length 2, and
\* the factor is 1/2 of the attenuation 1 of the material, not 1.
C25_FactorIsHalf ==
    /\ scatter.effect = "diffusion"
    /\ scatter.hit.normal = <<0, 0, -1>>
    /\ Vec3_sample_unit_vector(scatter.diffusion_sample) = <<0, 0, -1>>
    /\ SumLength = 2
    /\ scatter.result # None
    /\ scatter.hit.material.reflectance.attenuation = ONE
    /\ scatter.result[1].direction = <<0, 0, -1>>
    /\ scatter.result[2] = <<1, 2>>

\* Whenever the direction is a number the factor is half the attenuation.
HalfTimes_Holds ==
    (scatter.effect = "diffusion" /\ scatter.result # None
        /\ Vec3_is_finite(scatter.result[1].direction)) =>
        FracEq(scatter.result[2],
               <<scatter.hit.material.reflectance.attenuation[1],
                 scatter.hit.material.reflectance.attenuation[2] * 2>>)

\* The indices of the side the ray comes from and of the side it goes to, the
\* cosine of the angle of incidence, and the three reasons of a failure.
IndexFrom ==
    IF scatter.hit.type_ = "Enter" THEN scatter.hit.material.transmittance.incident_index
    ELSE scatter.hit.material.transmittance.refracted_index
IndexTo ==
    IF scatter.hit.type_ = "Enter" THEN scatter.hit.material.transmittance.refracted_index
    ELSE scatter.hit.material.transmittance.incident_index
Cosine == -Vec3_dot(scatter.hit.normal, scatter.ray.direction)
NoTransmittance == scatter.hit.material.transmittance = None
\* sin theta_2 = mu * sqrt(1 - cos^2 theta_1) > 1, squared
TotalReflection == IndexFrom * IndexFrom * (1 - Cosine * Cosine) > IndexTo * IndexTo
\* R = r0 + (1 - r0) (1 - cos theta_1)^5 > u, times (from + to)^2
ReflectanceAbove ==
    LET r0_numerator == (IndexFrom - IndexTo) * (IndexFrom - IndexTo)
        r0_denominator == (IndexFrom + IndexTo) * (IndexFrom + IndexTo)
    IN  (r0_numerator + (r0_denominator - r0_numerator) * (1 - Cosine) ^ 5)
            * scatter.effect_sample[2]
        > scatter.effect_sample[1] * r0_denominator

\* C26: trace_refraction returns None when the material has no
\* transmittance, when sin theta_2 > 1, or when the reflectance of Schlick is
\* above the sample; the sample is taken only when the first two do not
\* apply; in every other case the refracted ray is returned, from the location
\* of the hit and with a unit direction.
C26_RefractionFails ==
    scatter.effect = "refraction" =>
        /\ scatter.result = None
            <=> (NoTransmittance \/ TotalReflection \/ ReflectanceAbove)
        /\ scatter.draws = IF NoTransmittance \/ TotalReflection THEN 0 ELSE 1
        /\ scatter.result # None =>
            /\ scatter.result[1].origin = scatter.hit.location
            /\ Vec3_length_squared(scatter.result[1].direction) = 1

\* Total internal reflection: the ray leaves glass along the surface; no
\* sample is taken.
C26_Witness ==
    /\ scatter.effect = "refraction"
    /\ scatter.hit.type_ = "Leave"
    /\ scatter.hit.material.transmittance = Glass
    /\ Cosine = 0
    /\ TotalReflection
    /\ scatter.draws = 0
    /\ scatter.result = None

\* The reflectance 1/9 of glass at normal incidence is above the sample 0.
C26_ReflectanceWins ==
    /\ scatter.effect = "refraction"
    /\ scatter.hit.material.transmittance = Glass
    /\ Cosine = 1
    /\ scatter.effect_sample = ZERO
    /\ scatter.draws = 1
    /\ scatter.result = None

\* The same hit with the sample 1/4 is refracted straight on.
C26_Refracted ==
    /\ scatter.effect = "refraction"
    /\ scatter.hit.type_ = "Enter"
    /\ scatter.hit.material.transmittance = Glass
    /\ Cosine = 1
    /\ scatter.effect_sample = <<1, 4>>
    /\ scatter.draws = 1
    /\ scatter.result # None
    /\ scatter.result[1].direction = scatter.ray.direction

\* C27: a refraction multiplies the attenuation by exp(-hit.distance *
\* attenuation_coefficient) only when the hit has the type Leave (1/2 to the
\* power distance * coefficient, the coefficient in units of ln 2); at an
\* Enter hit the factor is 1.
C27_DecayOnLeaveOnly ==
    (scatter.effect = "refraction" /\ scatter.result # None) =>
        scatter.result[2] =
            IF scatter.hit.type_ = "Leave"
            THEN <<1, 2 ^ (scatter.hit.distance
                            * scatter.hit.material.transmittance.attenuation_coefficient)>>
            ELSE <<1, 1>>

\* A ray leaves glass after a segment of length 2: the factor is 1/4.
C27_Witness ==
    /\ scatter.effect = "refraction"
    /\ scatter.hit.type_ = "Leave"
    /\ scatter.hit.distance = 2
    /\ scatter.hit.material.transmittance = Glass
    /\ scatter.result # None
    /\ scatter.result[2] = <<1, 4>>

\* A ray enters glass at distance 2: the factor is 1.
C27_EnterUnchanged ==
    /\ scatter.effect = "refraction"
    /\ scatter.hit.type_ = "Enter"
    /\ scatter.hit.distance = 2
    /\ scatter.hit.material.transmittance = Glass
    /\ scatter.result # None
    /\ scatter.result[2] = ONE

(***************************************************************************)
(* Claims about the distance of a hit                                      *)
(***************************************************************************)
\* The distances at which the ray meets the sphere: the roots of
\* |origin + t direction - center|^2 = radius^2 (integers in the model).
SphereRoots ==
    {t \in -(2 * SurfExtent + 3)..(2 * SurfExtent + 3) :
        Vec3_length_squared(Vec3_sub(Ray_at(surf.ray, t), surf.surface.center))
            = surf.surface.radius * surf.surface.radius}
RootsInRange == {t \in SphereRoots : surf.range[1] <= t /\ t < surf.range[2]}

\* C28: every hit of a sphere, a triangle or a fog has a distance d with
\* distance_range.start <= d < distance_range.end; a sphere gives the least
\* of its roots that is in the range, so the larger one only when the smaller
\* is outside, and none when neither is in; the distance of a fog hit is
\* between the two distances the test of the box of the fog returns.
C28_DistanceInRange ==
    surf.done =>
        /\ surf.result # None =>
            /\ surf.range[1] <= surf.result.distance
            /\ surf.result.distance < surf.range[2]
        /\ surf.surface.kind = "Sphere" =>
            /\ surf.result = None <=> RootsInRange = {}
            /\ surf.result # None =>
                /\ surf.result.distance \in RootsInRange
                /\ \A t \in RootsInRange : surf.result.distance <= t
        /\ (surf.surface.kind = "UniformFog" /\ surf.result # None) =>
            LET aabb_hit == Aabb_hit(surf.surface.aabb, surf.ray, surf.range)
            IN  /\ aabb_hit # None
                /\ aabb_hit[1] <= surf.result.distance
                /\ surf.result.distance < aabb_hit[2]

\* The ray meets the unit sphere at 1 and 3 and the range starts at 2: the
\* hit is the larger root, from inside.
C28_Witness ==
    /\ surf.done
    /\ surf.surface = UnitSphere
    /\ surf.ray = [origin |-> <<0, 0, -2>>, direction |-> <<0, 0, 1>>]
    /\ surf.range = <<2, INFINITY>>
    /\ SphereRoots = {1, 3}
    /\ surf.result # None
    /\ surf.result.distance = 3
    /\ surf.result.type_ = "Leave"

\* The fog of the box (-1,-1,-1)..(1,1,1) is met from 1 to 3 and the ray
\* scatters after a free path of 1, at distance 2.
C28_FogInsideBox ==
    /\ surf.done
    /\ surf.surface = UniformFog(Box(<<-1, -1, -1>>, <<1, 1, 1>>))
    /\ surf.ray = [origin |-> <<-2, 0, 0>>, direction |-> <<1, 0, 0>>]
    /\ surf.range = <<0, INFINITY>>
    /\ Aabb_hit(surf.surface.aabb, surf.ray, surf.range) = <<1, 3>>
    /\ surf.result # None
    /\ surf.result.distance = 2

\* The hit Bvh::hit returns is in the range as well.
Bvh_hit_InRange ==
    (bvh.phase = "queried" /\ bvh.result # None) =>
        /\ bvh.range[1] <= bvh.result.distance
        /\ bvh.result.distance < bvh.range[2]

(***************************************************************************)
(* Claims about the wavelengths of a pixel                                 *)
(***************************************************************************)
\* C29: the wavelength of the k-th sample of a pixel is MIN_WAVELENGTH + the
\* base-2 radical inverse of k times SPECTRUM_WIDTH, whatever the generator of
\* the row gave and whatever the samples before returned: the sequence starts
\* anew with each render_pixel; the first sample is at 595 nm.
C29_WavelengthOfSample ==
    pixel.i > 0 =>
        /\ SameFraction(pixel.wavelength, Wavelength(RadicalInverse(2, pixel.i)))
        /\ pixel.i = 1 => SameFraction(pixel.wavelength, <<595, 1>>)

\* One sample per pixel, the generator gave the offsets 1/2 and 1/2: the
\* sample is at 595 nm.
C29_Witness ==
    /\ pixel.n_samples_per_pixel = 1
    /\ pixel.i = 1
    /\ pixel.subpixel_sequence.corput_1.offset = <<1, 2>>
    /\ pixel.subpixel_sequence.corput_2.offset = <<1, 2>>
    /\ pixel.wavelength = <<1190, 2>>

\* The third sample is at 712.5 nm.
C29_ThirdSample ==
    /\ pixel.i = 3
    /\ SameFraction(pixel.wavelength, <<1425, 2>>)

(***************************************************************************)
(* Claims about TraceState                                                 *)
(***************************************************************************)
\* The collapsed state is the line of its wavelength.
SameAsLine ==
    trace_state.state.kind = "SingleLine" =>
        LET line == trace_state.lines[trace_state.state.wavelength]
        IN  /\ trace_state.state.total_radiance = line.total_radiance
            /\ trace_state.state.total_attenuation = line.total_attenuation
\* A SingleLine stays one, at its wavelength.
StaysSingleLine ==
    trace_state.state.kind = "SingleLine" =>
        /\ trace_state'.state.kind = "SingleLine"
        /\ trace_state'.state.wavelength = trace_state.state.wavelength

\* C30: after any calls of apply_emittance and apply_attenuation on a
\* Spectrum, the SingleLine that collapse gives at a wavelength has the total
\* radiance and the total attenuation of a SingleLine that was at that
\* wavelength from the start and got the same calls, also for the calls that
\* follow the collapse; a collapsed state stays a SingleLine and a later
\* collapse does not change its wavelength.
C30_CollapseIsSingleLine == []SameAsLine /\ [][StaysSingleLine]_vars

\* An emitter, an attenuator that halves at the wavelength 2 only, a second
\* emitter, then the collapse at 2: the radiance is 2 + 2 / 2 = 3 and the
\* attenuation 1/2.
C30_Witness ==
    /\ trace_state.calls = 4
    /\ trace_state.collapses = 1
    /\ trace_state.state.kind = "SingleLine"
    /\ trace_state.state.wavelength = 2
    /\ trace_state.state.total_radiance = <<3, 1>>
    /\ trace_state.state.total_attenuation = <<1, 2>>

\* A second collapse, with the other wavelength drawn, left the line alone.
C30_CollapsedTwice ==
    /\ trace_state.collapses = 2
    /\ trace_state.state.kind = "SingleLine"
    /\ trace_state.state.wavelength = 1
    /\ trace_state.state.total_radiance = <<1, 2>>

====
